---- MODULE Spec2Model ----
(***************************************************************************)
(* Model of the download gists of Aind.Behavior.Gists:                     *)
(*   - code-ocean-api/main.py    : batch submitter and job-monitoring loop *)
(*   - code-ocean-api/get_url.py : main (configuration, status check,      *)
(*                                 loop over the ready jobs), recursive    *)
(*                                 listing of a result tree, and           *)
(*                                 download_job (filter step, download     *)
(*                                 loop, a second run on the same job)     *)
(*   - single-site-collect-data  : main and download_s3_asset, the S3      *)
(*                                 asset collector with its thread pool    *)
(* Each script is a specification of its own over the shared variables.    *)
(***************************************************************************)
EXTENDS Integers, Sequences, FiniteSets, TLC

(* ----------------------------- bounds ---------------------------------- *)
\* largest number of parameter sets in parameters_to_vary
MaxRuns == 2
\* poll passes the backend may leave unsettled
MaxPasses == 3

\* entries of the result tree that list_all_files is followed through
MaxNodes == 3

\* calls of list_all_files the interpreter nests before RecursionError
RecursionLimit == 3

\* rig directories, and json files in all of them together
MaxRigs == 2
MaxRigFiles == 3

\* entries of target_folder
MaxSessions == 3

(* --------------------------- shared values ----------------------------- *)
\* Python's None in an integer-typed field (computation id, size)
None == -1

VARIABLES
    \* ---- code-ocean-api/main.py
    mpc,            \* position of the script: submit, monitor, for, sleep, done
    num_runs,       \* len(parameters_to_vary)
    run_idx,        \* parameter sets submitted so far
    jobs,           \* the ordered dict jobs: job_key position -> job_info
    all_done,       \* the flag of the current pass
    job_pos,        \* position of the for loop over jobs.items()
    passes,         \* passes of the while loop started so far
    probed,         \* positions probed by get_computation in the current pass
    failed_probe,   \* positions whose probe raised in the current pass
    events,         \* number of "(was: ...)" transition lines printed
    first_probes,   \* what the probes of the first job returned, in order
    settled,        \* the backend answers every probe with a terminal state
    jobs_to_save,   \* the "jobs" object written to jobs.json
    renewed,        \* jobs reported non-terminal after a terminal state was
                    \* recorded, and not reported terminal since
    \* ---- code-ocean-api/get_url.py, main (batch mode)
    bpc,            \* position of main: start, check, checked, download,
                    \* ended, crashed (aborted: an exception left the probe)
    config,         \* the arguments of main and what the jobs file holds
    jobs_dict,      \* computation ids loaded from the jobs file, in order
    chk_pos,        \* position of the status-check loop
    status_table,   \* rows added to the status table
    jobs_to_download, \* positions appended to jobs_to_download
    probe_raised,   \* positions whose get_computation call raised
    dj_pos,         \* position of the loop over jobs_to_download
    calls,          \* the download_job calls made, in order
    success_count,  \* jobs counted as downloaded successfully
    remote,         \* kinds of requests and writes issued so far
    \* ---- code-ocean-api/get_url.py, list_all_files
    lpc,            \* position: build (results being written), listed, raised
    tree,           \* the remote namespace: entry path -> size
    failing,        \* paths whose listing request fails
    requests,       \* number of listing requests issued by the walk
    \* ---- code-ocean-api/get_url.py, download_job (filter step)
    ppc,            \* position: filter, summary, filtered
    all_files,      \* the list returned by list_all_files
    max_file_size_mb,
    max_size_mb,    \* the command-line argument --max-size-mb
    force_download,
    on_disk,        \* destination paths that exist on the local disk
    file_pos,       \* position of the for loop over all_files
    files_to_download,
    skipped_files,
    existing_files,
    no_size,        \* paths dropped with "has no size information"
    summary,        \* the counts printed by the download summary
    \* ---- code-ocean-api/get_url.py, download_job (after the summary)
    dpc,            \* position: start, loop, transfer, done
    run,            \* which invocation of download_job on this job: 1 or 2
    returned,       \* the value download_job returned
    answer,         \* what the user answered to Confirm.ask
    dl_pos,         \* position of the for loop over files_to_download
    attempted,      \* paths passed to get_result_file_urls in this run
    active,         \* destinations download_file is writing to right now
    fetched,        \* paths whose download_file call returned in this run
    errored,        \* paths with a "Failed to ..." error line in this run
    overall,        \* advances of the overall progress task in this run
    disk,           \* content of each local file: who wrote it, complete?
    prev,           \* what the first run did, kept for the second run
    truncated,      \* paths whose last download_file call failed mid-stream
    \* ---- single-site-collect-data/main.py
    cpc,            \* position of main: start, submit, collect, done
    uris,           \* the S3 locations collected from the records
    statuses,       \* the status shown for each asset
    sub_pos,        \* position of the submit loop
    futures,        \* state of each submitted download_s3_asset call
    collected,      \* futures that as_completed has handed to the loop
    advanced,       \* advances of the overall progress task
    \* ---- code-ocean-api/get_url.py, list_all_files call by call
    wpc,            \* position of the running call: list, for, except, return
    alias,          \* entries that a listing reports under another path
    stack,          \* the calls of list_all_files that have not returned
    exc,            \* the exception being handled, "" when there is none
    requested,      \* the paths of the listing requests made, in order
    \* ---- upgrade-aind-behavior-services-json/main.py
    upc,            \* position of the script
    DRY_RUN,        \* the flag as set in the script
    DELETE_UNPARSABLE,  \* the flag as set in the script
    rig_disk,       \* content of the files below CONFIGURATION_DIRECTORY
    original,       \* rig_disk as it was when the script started
    pc_pos,         \* position of `for pc in available_rigs`
    json_files,     \* what is left of pc.glob("*.json")
    file,           \* the file of the running iteration
    ops,            \* the copies, writes and deletions made, in order
    \* ---- vr-foraging-data-transfer-post-acquisition/main.py
    tpc,            \* position of main
    FORCE_METADATA_REGEN,   \* the flag as set in the script
    sessions,       \* the entries of target_folder, in iterdir order
    session_pos,    \* position of `for session_dir in ...iterdir()`
    visited,        \* entries the loop has come to
    posted          \* the entries a submit request was sent for, in order

monitorVars == <<mpc, num_runs, run_idx, jobs, all_done, job_pos, passes,
                 probed, failed_probe, events, first_probes, settled,
                 jobs_to_save, renewed>>

batchVars == <<bpc, config, jobs_dict, chk_pos, status_table,
               jobs_to_download, probe_raised, dj_pos, calls, success_count,
               remote>>

listVars == <<lpc, tree, failing, requests>>

filterVars == <<ppc, all_files, max_file_size_mb, max_size_mb,
                force_download, on_disk,
                file_pos, files_to_download, skipped_files, existing_files,
                no_size, summary>>

downloadVars == <<dpc, run, returned, answer, dl_pos, attempted, active,
                  fetched, errored, overall, disk, prev, truncated>>

collectVars == <<cpc, uris, statuses, sub_pos, futures, collected, advanced>>

walkVars == <<wpc, alias, stack, exc, requested>>

upgradeVars == <<upc, DRY_RUN, DELETE_UNPARSABLE, rig_disk, original, pc_pos,
                 json_files, file, ops>>

sessionVars == <<tpc, FORCE_METADATA_REGEN, sessions, session_pos, visited,
                  posted>>

furtherVars == <<walkVars, upgradeVars, sessionVars>>

vars == <<monitorVars, batchVars, listVars, filterVars, downloadVars,
          collectVars, furtherVars>>

\* the part of the state a script does not use stays as it is
MonitorIdle ==
    /\ mpc = "idle" /\ num_runs = 0 /\ run_idx = 0 /\ jobs = <<>>
    /\ all_done = TRUE /\ job_pos = 1 /\ passes = 0 /\ probed = {}
    /\ failed_probe = {} /\ events = 0 /\ first_probes = <<>>
    /\ settled = FALSE /\ jobs_to_save = <<>> /\ renewed = {}

BatchIdle ==
    /\ bpc = "idle" /\ config = <<>> /\ jobs_dict = <<>> /\ chk_pos = 1
    /\ status_table = <<>> /\ jobs_to_download = <<>> /\ probe_raised = {}
    /\ dj_pos = 1 /\ calls = <<>> /\ success_count = 0 /\ remote = {}

ListIdle ==
    /\ lpc = "idle" /\ tree = <<>> /\ failing = {} /\ requests = 0

FilterIdle ==
    /\ ppc = "idle" /\ all_files = <<>> /\ max_file_size_mb = None
    /\ max_size_mb = 0
    /\ force_download = FALSE /\ on_disk = {} /\ file_pos = 1
    /\ files_to_download = <<>> /\ skipped_files = <<>>
    /\ existing_files = <<>> /\ no_size = {} /\ summary = <<>>

DownloadIdle ==
    /\ dpc = "idle" /\ run = 0 /\ returned = FALSE /\ answer = FALSE
    /\ dl_pos = 1 /\ attempted = <<>> /\ active = {} /\ fetched = {}
    /\ errored = {} /\ overall = 0 /\ disk = <<>> /\ prev = <<>>
    /\ truncated = {}

CollectIdle ==
    /\ cpc = "idle" /\ uris = <<>> /\ statuses = <<>> /\ sub_pos = 1
    /\ futures = <<>> /\ collected = {} /\ advanced = 0

WalkIdle ==
    /\ wpc = "idle" /\ alias = <<>> /\ stack = <<>> /\ exc = ""
    /\ requested = <<>>

UpgradeIdle ==
    /\ upc = "idle" /\ DRY_RUN = TRUE /\ DELETE_UNPARSABLE = FALSE
    /\ rig_disk = <<>> /\ original = <<>> /\ pc_pos = 1 /\ json_files = <<>>
    /\ file = <<>> /\ ops = <<>>

SessionsIdle ==
    /\ tpc = "idle" /\ FORCE_METADATA_REGEN = FALSE /\ sessions = <<>>
    /\ session_pos = 1 /\ visited = {} /\ posted = <<>>

FurtherIdle == WalkIdle /\ UpgradeIdle /\ SessionsIdle

(* ===================== code-ocean-api/main.py ========================== *)

terminal_states == {"completed", "failed", "stopped"}

\* states the backend reports; "Completed" stands for a differently-cased value
ProbeStates == {"running", "completed", "failed", "stopped", "Completed"}

\* str.lower() on the reported states
Lower(state) == IF state = "Completed" THEN "completed" ELSE state

\* a probe either returns a state or raises
ProbeOutcomes == ProbeStates \cup {"raise"}

\* parameters_to_vary[run_idx]; two entries of the list may be equal
RunSettings(idx) == idx \div 2

\* faulty variant: the key is built from the settings alone
job_key_without_index(idx, run_settings) == <<run_settings>>

\* `f"run_{run_idx}_{param_str}"`
job_key(idx, run_settings) == <<idx, run_settings>>

\* jobs[job_key] after run_capsule returned
SubmittedJob(id) == [computation_id |-> id, status |-> "submitted"]

\* jobs[job_key] after run_capsule raised
SubmissionFailedJob == [computation_id |-> None, status |-> "submission_failed"]

\* an entry of the insertion-ordered dict jobs: the value with its key
DictItem(key, job_info) ==
    [job_key |-> key, computation_id |-> job_info.computation_id,
     status |-> job_info.status]

\* `jobs[job_key] = job_info`: a new key is appended, a known key keeps
\* its place and gets the new value
DictSet(dict, key, job_info) ==
    IF \E i \in DOMAIN dict : dict[i].job_key = key
    THEN [i \in DOMAIN dict |-> IF dict[i].job_key = key
                                THEN DictItem(key, job_info) ELSE dict[i]]
    ELSE Append(dict, DictItem(key, job_info))

\* faulty variant: a job without an id is probed like any other
SkipsProbeNever(job_info) == FALSE

\* `if computation_id is None: ... continue`
SkipsProbe(job_info) == job_info.computation_id = None

\* faulty variant: every successful probe is reported as a change
StatusChangeAlways(old_status, state) == TRUE

\* `"" if old_status == state else f" (was: {old_status})"`
StatusChange(old_status, state) == old_status # state

\* faulty variant: the terminal test is inverted
AllDoneAfterInverted(done, state) ==
    IF Lower(state) \in terminal_states THEN FALSE ELSE done

\* `if state.lower() not in terminal_states: all_done = False`
AllDoneAfter(done, state) ==
    IF Lower(state) \notin terminal_states THEN FALSE ELSE done

\* the except branch of a probe leaves all_done as it is
AllDoneAfterError(done) == done

\* faulty variant: a probe that raises ends the for loop
after_probe_aborts(pos, raised, n) == IF raised THEN n + 1 ELSE pos + 1

\* the position of `for job_key, job_info in jobs.items()` after a probe:
\* the try/except is inside the loop body
after_probe(pos, raised, n) == pos + 1

\* `if all_done: ... break`
LoopBreaks(done) == done

\* the jobs waiting anew for a terminal state after the probe of job j
\* returned state while old_status was recorded
Renewed(waiting, j, old_status, state) ==
    IF Lower(state) \in terminal_states THEN waiting \ {j}
    ELSE IF Lower(old_status) \in terminal_states THEN waiting \cup {j}
    ELSE waiting

\* the probes of the first job, kept while they follow running, completed
LogProbe(log, outcome) ==
    IF log = <<>> /\ outcome = "running" THEN <<"running">>
    ELSE IF log = <<"running">> /\ outcome = "completed"
         THEN <<"running", "completed">>
    ELSE <<"other">>

MonitorInit ==
    /\ mpc = "submit"
    /\ num_runs \in 1..MaxRuns
    /\ run_idx = 0
    /\ jobs = <<>>
    /\ all_done = TRUE
    /\ job_pos = 1
    /\ passes = 0
    /\ probed = {}
    /\ failed_probe = {}
    /\ events = 0
    /\ first_probes = <<>>
    /\ settled = FALSE
    /\ jobs_to_save = <<>>
    /\ renewed = {}

\* one iteration of the submission loop
Submit ==
    /\ mpc = "submit"
    /\ run_idx < num_runs
    /\ \E raised \in BOOLEAN :
         jobs' = DictSet(jobs, job_key(run_idx, RunSettings(run_idx)),
                         IF raised THEN SubmissionFailedJob
                                   ELSE SubmittedJob(run_idx + 1))
    \* after the last submission the jobs are written to jobs.json
    /\ jobs_to_save' = IF run_idx + 1 = num_runs THEN jobs' ELSE jobs_to_save
    /\ run_idx' = run_idx + 1
    /\ mpc' = IF run_idx + 1 = num_runs THEN "monitor" ELSE "submit"
    /\ UNCHANGED <<num_runs, all_done, job_pos, passes, probed, failed_probe,
                   events, first_probes, settled, renewed>>
    /\ UNCHANGED <<batchVars, listVars, filterVars, downloadVars,
                   collectVars, furtherVars>>

\* top of the while loop: all_done = True, the for loop starts
BeginPass ==
    /\ mpc = "monitor"
    /\ passes < MaxPasses + (IF settled THEN 2 ELSE 0)
    /\ all_done' = TRUE
    /\ job_pos' = 1
    /\ passes' = passes + 1
    /\ probed' = {}
    /\ failed_probe' = {}
    /\ mpc' = "for"
    /\ UNCHANGED <<num_runs, run_idx, jobs, events, first_probes, settled,
                   jobs_to_save,
                   renewed>>
    /\ UNCHANGED <<batchVars, listVars, filterVars, downloadVars,
                   collectVars, furtherVars>>

\* one iteration of the for loop over jobs.items()
PollJob ==
    /\ mpc = "for"
    /\ job_pos <= Len(jobs)
    /\ LET job_info == jobs[job_pos] IN
       IF SkipsProbe(job_info)
       THEN /\ job_pos' = job_pos + 1
            /\ UNCHANGED <<jobs, all_done, probed, failed_probe, events,
                           first_probes, renewed>>
       ELSE \E outcome \in ProbeOutcomes :
              /\ settled => outcome \in terminal_states
              /\ job_pos' = after_probe(job_pos, outcome = "raise", Len(jobs))
              /\ probed' = probed \cup {job_pos}
              /\ first_probes' = IF job_pos = 1
                                 THEN LogProbe(first_probes, outcome)
                                 ELSE first_probes
              /\ IF outcome = "raise"
                 THEN /\ jobs' = [jobs EXCEPT ![job_pos].status =
                                      "error_checking_status"]
                      /\ failed_probe' = failed_probe \cup {job_pos}
                      /\ all_done' = AllDoneAfterError(all_done)
                      /\ UNCHANGED <<events, renewed>>
                 ELSE /\ jobs' = [jobs EXCEPT ![job_pos].status = outcome]
                      /\ events' = IF StatusChange(job_info.status, outcome)
                                   THEN events + 1 ELSE events
                      /\ all_done' = AllDoneAfter(all_done, outcome)
                      /\ renewed' = Renewed(renewed, job_pos, job_info.status,
                                            outcome)
                      /\ UNCHANGED failed_probe
    /\ UNCHANGED <<mpc, num_runs, run_idx, passes, settled, jobs_to_save>>
    /\ UNCHANGED <<batchVars, listVars, filterVars, downloadVars,
                   collectVars, furtherVars>>

\* after the for loop: break, or go to sleep
EndPass ==
    /\ mpc = "for"
    /\ job_pos > Len(jobs)
    /\ mpc' = IF LoopBreaks(all_done) THEN "done" ELSE "sleep"
    /\ UNCHANGED <<num_runs, run_idx, jobs, all_done, job_pos, passes, probed,
                   failed_probe, events, first_probes, settled, jobs_to_save,
                   renewed>>
    /\ UNCHANGED <<batchVars, listVars, filterVars, downloadVars,
                   collectVars, furtherVars>>

\* time.sleep(poll_interval) returns
Sleep ==
    /\ mpc = "sleep"
    /\ mpc' = "monitor"
    /\ UNCHANGED <<num_runs, run_idx, jobs, all_done, job_pos, passes, probed,
                   failed_probe, events, first_probes, settled, jobs_to_save,
                   renewed>>
    /\ UNCHANGED <<batchVars, listVars, filterVars, downloadVars,
                   collectVars, furtherVars>>

\* the backend: from now on every probe succeeds with a terminal state
Settle ==
    /\ ~settled
    /\ mpc \in {"monitor", "sleep"}
    /\ settled' = TRUE
    /\ UNCHANGED <<mpc, num_runs, run_idx, jobs, all_done, job_pos, passes,
                   probed, failed_probe, events, first_probes, jobs_to_save,
                   renewed>>
    /\ UNCHANGED <<batchVars, listVars, filterVars, downloadVars,
                   collectVars, furtherVars>>

MonitorStep == Submit \/ BeginPass \/ PollJob \/ EndPass \/ Sleep

Next == Submit \/ BeginPass \/ PollJob \/ EndPass \/ Sleep \/ Settle

Init ==
    MonitorInit /\ BatchIdle /\ ListIdle /\ FilterIdle /\ DownloadIdle
        /\ CollectIdle /\ FurtherIdle

Spec == Init /\ [][Next]_vars

FairSpec == Spec /\ WF_vars(MonitorStep)

(* ------------------- claims about the monitoring loop ------------------ *)

HasId(j) == jobs[j].computation_id # None

\* C1 (as stated): the monitoring loop exits only in a state where every
\* job's recorded state is one of completed, failed, stopped.
C1_ExitOnlyWhenAllTerminal ==
    mpc = "done" => \A j \in DOMAIN jobs : jobs[j].status \in terminal_states

C3_NoExitAfterFailedProbe == mpc = "done" => failed_probe = {}

\* C5 (as stated): once a job's recorded state is terminal it never changes
\* again, whatever later probes return or however they fail.
C5_TerminalIsSticky ==
    [][\A j \in DOMAIN jobs :
          jobs[j].status \in terminal_states
              => jobs'[j].status = jobs[j].status]_vars

\* the run of scenario A: one job, probes return running and then completed
ScenarioA ==
    /\ num_runs = 1
    /\ mpc = "done"
    /\ first_probes = <<"running", "completed">>

AtProbe == mpc = "for" /\ job_pos <= Len(jobs) /\ HasId(job_pos)

\* the for loop of a pass is over
AtPassEnd == mpc = "for" /\ job_pos > Len(jobs)

NoJobHasId == \A j \in DOMAIN jobs : ~HasId(j)

\* C7: once every probe of every job with an id succeeds with a terminal
\* state, the loop eventually exits; a batch in which no job has an id
\* exits after its first pass.
C7_LoopTerminates ==
    /\ settled ~> (mpc = "done")
    /\ (mpc = "monitor" /\ NoJobHasId) ~> (mpc = "done" /\ passes = 1)
    /\ [](mpc = "done" /\ NoJobHasId => passes = 1)

\* the loop exited after the backend settled during a wait between passes
C7_Witness == settled /\ mpc = "done" /\ passes >= 2 /\ ~NoJobHasId

(* ============ code-ocean-api/get_url.py: main, batch mode ============== *)

\* largest number of jobs the jobs file names
MaxJobs == 2

\* a ComputationState that is absent (None)
NoState == "None"

\* the values of ComputationState the backend reports
StateValues == {"running", "completed", "failed", "stopped"}

\* what co_client.computations.get_computation does: it raises, or returns
\* a Computation whose state and has_results may each be None
Replies ==
    {[raises |-> TRUE, state |-> NoState, has_results |-> "none"]}
    \cup [raises : {FALSE}, state : StateValues \cup {NoState},
          has_results : {"true", "false", "none"}]

\* `computation.has_results or False`
OrFalse(has_results) == has_results = "true"

\* faulty variant: no try/except around the lookup
check_computation_status_unguarded(reply) ==
    [raised |-> reply.raises, state |-> reply.state,
     has_results |-> OrFalse(reply.has_results)]

\* check_computation_status: (state, has_results), or (None, False) from
\* the except branch; `raised` tells whether an exception leaves the call
check_computation_status(reply) ==
    IF reply.raises
    THEN [raised |-> FALSE, state |-> NoState, has_results |-> FALSE]
    ELSE [raised |-> FALSE, state |-> reply.state,
          has_results |-> OrFalse(reply.has_results)]

\* the row main adds to the status table for a probed job
StatusRow(state, has_results) ==
    IF state = NoState
    THEN [state |-> "Error", has_results |-> "?", action |-> "Skip"]
    ELSE IF state \in {"completed", "failed", "stopped"} /\ has_results
    THEN [state |-> state, has_results |-> "yes", action |-> "Download"]
    ELSE [state |-> state,
          has_results |-> IF ~has_results THEN "no" ELSE "?",
          action |-> IF ~has_results THEN "Skip (no results)"
                     ELSE "Skip (state)"]

\* what the jobs file holds under "jobs": for each job key a computation
\* id, or None where the submission left none
Manifests ==
    UNION {{m \in [1..n -> {None} \cup 1..n] :
               \A i \in 1..n : m[i] \in {None, i}}
           : n \in 0..MaxJobs}

\* the arguments job_id and jobs_file of main; the jobs file is absent,
\* not valid JSON, or readable
Configs ==
    {c \in [job_id : {None, 1},
            jobs_file : {"none", "missing", "unreadable", "readable"},
            manifest : Manifests] :
        c.jobs_file # "readable" => c.manifest = <<>>}

\* `if computation_id:`
Truthy(computation_id) == computation_id # None

\* faulty variant: entries without a computation id are kept
load_jobs_from_json_keeps_all(manifest) == manifest

\* load_jobs_from_json: the computation ids of the entries that have one,
\* in the order of the file
load_jobs_from_json(manifest) == SelectSeq(manifest, Truthy)

\* the check at the head of download_job: TRUE when it goes on to the
\* listing, FALSE when it returns False
ProbeGate(reply) ==
    /\ ~reply.raises
    /\ ~(reply.state # NoState
         /\ reply.state \notin {"completed", "failed", "stopped"})
    /\ OrFalse(reply.has_results)

\* how download_job goes on after the probe: the listing is empty, nothing
\* is left to download after filtering, the user declines, or the download
\* loop runs, with or without objects that failed
AfterProbe ==
    {"no_files", "nothing_to_download", "declined", "finished_with_errors",
     "finished"}

\* the ways through download_job for a probe reply
JobOutcomes(reply) == IF ProbeGate(reply) THEN AfterProbe ELSE {"skipped"}

\* the value download_job returns
download_job_returns(outcome) ==
    outcome \in {"nothing_to_download", "finished_with_errors", "finished"}

\* the requests and local writes of one download_job call
RemoteOf(outcome) ==
    {"probe"}
    \cup (IF outcome # "skipped" THEN {"listing"} ELSE {})
    \cup (IF outcome \notin {"skipped", "no_files"} THEN {"mkdir"} ELSE {})
    \cup (IF outcome \in {"finished_with_errors", "finished"}
          THEN {"url_and_transfer"} ELSE {})

\* the state is terminal and the job has results, as the status check of
\* main reads a reply
TerminalWithResults(reply) ==
    /\ ~reply.raises
    /\ reply.state \in {"completed", "failed", "stopped"}
    /\ OrFalse(reply.has_results)

\* what is recorded of a download_job call
CallOf(job, reply, outcome) ==
    [job |-> job, ready |-> TerminalWithResults(reply), outcome |-> outcome]

\* faulty variant: the loop ends at the first job that did not succeed
next_job_stops(pos, success, n) == IF success THEN pos + 1 ELSE n + 1

\* the position of `for ... in enumerate(jobs_to_download, 1)` after a job
next_job(pos, success, n) == pos + 1

BatchOthersUnchanged ==
    UNCHANGED <<monitorVars, listVars, filterVars, downloadVars, collectVars,
                furtherVars>>

\* main is called; the client is built from the token without a request
BatchInit ==
    /\ bpc = "start"
    /\ config \in Configs
    /\ jobs_dict = <<>>
    /\ chk_pos = 1
    /\ status_table = <<>>
    /\ jobs_to_download = <<>>
    /\ probe_raised = {}
    /\ dj_pos = 1
    /\ calls = <<>>
    /\ success_count = 0
    /\ remote = {}

\* batch mode up to the status check: the jobs file must exist, be
\* readable and name at least one job with a computation id
LoadJobs ==
    /\ bpc = "start"
    /\ config.jobs_file # "none"
    /\ IF config.jobs_file = "missing"
       THEN bpc' = "ended" /\ UNCHANGED jobs_dict
       ELSE IF config.jobs_file = "unreadable"
       THEN bpc' = "crashed" /\ UNCHANGED jobs_dict
       ELSE /\ jobs_dict' = load_jobs_from_json(config.manifest)
            /\ bpc' = IF jobs_dict' = <<>> THEN "ended" ELSE "check"
    /\ UNCHANGED <<config, chk_pos, status_table, jobs_to_download,
                   probe_raised, dj_pos, calls, success_count, remote>>
    /\ BatchOthersUnchanged

\* single job mode: download_job is called once on job_id
DownloadSingleJob ==
    /\ bpc = "start"
    /\ config.jobs_file = "none"
    /\ config.job_id # None
    /\ \E reply \in Replies : \E outcome \in JobOutcomes(reply) :
          /\ calls' = Append(calls, CallOf(config.job_id, reply, outcome))
          /\ remote' = remote \cup RemoteOf(outcome)
    /\ bpc' = "ended"
    /\ UNCHANGED <<config, jobs_dict, chk_pos, status_table, jobs_to_download,
                   probe_raised, dj_pos, success_count>>
    /\ BatchOthersUnchanged

\* "Must provide either --job-id or --jobs-file"
NoJobGiven ==
    /\ bpc = "start"
    /\ config.jobs_file = "none"
    /\ config.job_id = None
    /\ bpc' = "ended"
    /\ UNCHANGED <<config, jobs_dict, chk_pos, status_table, jobs_to_download,
                   probe_raised, dj_pos, calls, success_count, remote>>
    /\ BatchOthersUnchanged

\* one iteration of `for job_key, computation_id in jobs_dict.items()`
CheckJob ==
    /\ bpc = "check"
    /\ chk_pos <= Len(jobs_dict)
    /\ \E reply \in Replies :
         LET result == check_computation_status(reply) IN
         /\ probe_raised' = IF reply.raises THEN probe_raised \cup {chk_pos}
                            ELSE probe_raised
         /\ IF result.raised
            THEN \* the exception leaves main: the loop is abandoned
                 /\ bpc' = "aborted"
                 /\ UNCHANGED <<chk_pos, status_table, jobs_to_download>>
            ELSE LET row == StatusRow(result.state, result.has_results) IN
                 /\ status_table' = Append(status_table, row)
                 /\ jobs_to_download' =
                        IF row.action = "Download"
                        THEN Append(jobs_to_download, chk_pos)
                        ELSE jobs_to_download
                 /\ chk_pos' = chk_pos + 1
                 /\ UNCHANGED bpc
    /\ remote' = remote \cup {"probe"}
    /\ UNCHANGED <<config, jobs_dict, dj_pos, calls, success_count>>
    /\ BatchOthersUnchanged

\* the status table and the count of ready jobs are printed
ShowStatusTable ==
    /\ bpc = "check"
    /\ chk_pos > Len(jobs_dict)
    /\ bpc' = "checked"
    /\ UNCHANGED <<config, jobs_dict, chk_pos, status_table, jobs_to_download,
                   probe_raised, dj_pos, calls, success_count, remote>>
    /\ BatchOthersUnchanged

\* `if not jobs_to_download: return`, else the download loop is entered
AfterStatusTable ==
    /\ bpc = "checked"
    /\ bpc' = IF jobs_to_download = <<>> THEN "ended" ELSE "download"
    /\ UNCHANGED <<config, jobs_dict, chk_pos, status_table, jobs_to_download,
                   probe_raised, dj_pos, calls, success_count, remote>>
    /\ BatchOthersUnchanged

\* one iteration of the loop over jobs_to_download: download_job probes the
\* job again and returns; the job is counted if it returned True
DownloadReadyJob ==
    /\ bpc = "download"
    /\ dj_pos <= Len(jobs_to_download)
    /\ LET computation_id == jobs_dict[jobs_to_download[dj_pos]] IN
       \E reply \in Replies : \E outcome \in JobOutcomes(reply) :
          LET success == download_job_returns(outcome) IN
          /\ calls' = Append(calls, CallOf(computation_id, reply, outcome))
          /\ remote' = remote \cup RemoteOf(outcome)
          /\ success_count' = IF success THEN success_count + 1
                              ELSE success_count
          /\ dj_pos' = next_job(dj_pos, success, Len(jobs_to_download))
    /\ UNCHANGED <<bpc, config, jobs_dict, chk_pos, status_table,
                   jobs_to_download, probe_raised>>
    /\ BatchOthersUnchanged

\* "Batch download complete: success_count/len(jobs_to_download)"
FinishBatch ==
    /\ bpc = "download"
    /\ dj_pos > Len(jobs_to_download)
    /\ bpc' = "ended"
    /\ UNCHANGED <<config, jobs_dict, chk_pos, status_table, jobs_to_download,
                   probe_raised, dj_pos, calls, success_count, remote>>
    /\ BatchOthersUnchanged

BatchNext ==
    \/ LoadJobs
    \/ DownloadSingleJob
    \/ NoJobGiven
    \/ CheckJob
    \/ ShowStatusTable
    \/ AfterStatusTable
    \/ DownloadReadyJob
    \/ FinishBatch

InitBatch ==
    BatchInit /\ MonitorIdle /\ ListIdle /\ FilterIdle /\ DownloadIdle
        /\ CollectIdle /\ FurtherIdle

SpecBatch == InitBatch /\ [][BatchNext]_vars

(* --------------------- claims about the status probe ------------------- *)

InSeq(x, seq) == \E i \in DOMAIN seq : seq[i] = x

\* C4: check_computation_status never raises; a job whose lookup failed is
\* reported as an error and skipped, and the jobs after it are still probed.
C4_ProbeNeverRaises ==
    /\ bpc # "aborted"
    /\ Len(status_table) = chk_pos - 1
    /\ \A p \in probe_raised :
          /\ p <= Len(status_table)
          /\ status_table[p].state = "Error"
          /\ status_table[p].action = "Skip"
          /\ ~InSeq(p, jobs_to_download)
    /\ bpc = "checked" => Len(status_table) = Len(jobs_dict)

\* the first lookup failed and a later job was still probed and is ready
C4_Witness ==
    /\ bpc = "checked"
    /\ 1 \in probe_raised
    /\ jobs_to_download # <<>>

(* ============ code-ocean-api/get_url.py: list_all_files ================ *)

\* largest number of entries in the result tree
MaxEntries == 4
\* largest number of paths whose listing request fails
MaxFailures == 1

MiB == 1024 * 1024

\* sizes of the files the computation writes
FileSizes == {10 * MiB, 100 * MiB}

\* a folder is reported without a size, or with size 0; so is an empty file
FolderSizes == {None, 0}

\* the root path "" of the result tree
Root == <<>>

\* the entries directly below path p; an entry's path is its parent's path
\* followed by its position in the parent's listing
Children(p) ==
    {q \in DOMAIN tree : Len(q) = Len(p) + 1 /\ SubSeq(q, 1, Len(p)) = p}

\* results.items of list_computation_results(computation_id, path)
Listing(path) ==
    [i \in 1..Cardinality(Children(path)) |->
        [path |-> Append(path, i), size |-> tree[Append(path, i)]]]

\* faulty variant: only size 0 marks a directory
IsDirectoryZeroOnly(item_size) == item_size = 0

\* faulty variant: only a missing size marks a directory
IsDirectoryNoneOnly(item_size) == item_size = None

\* `if item_size is None or item_size == 0`
IsDirectory(item_size) == item_size = None \/ item_size = 0

RECURSIVE list_all_files(_)
RECURSIVE ForItems(_, _, _)

\* `for item in results.items`: files and the count of listing requests so
\* far; an exception raised by the recursive call ends the loop
ForItems(items, files, n) ==
    IF items = <<>> THEN [files |-> files, raised |-> FALSE, requests |-> n]
    ELSE LET item == Head(items) IN
         IF IsDirectory(item.size)
         THEN LET sub_files == list_all_files(item.path) IN
              IF sub_files.raised
              THEN [files |-> files, raised |-> TRUE,
                    requests |-> n + sub_files.requests]
              ELSE ForItems(Tail(items), files \o sub_files.files,
                            n + sub_files.requests)
         ELSE ForItems(Tail(items), Append(files, item), n)

\* the body of the try block: the listing request, then the loop
TryListing(path) ==
    IF path \in failing
    THEN [files |-> <<>>, raised |-> TRUE, requests |-> 1]
    ELSE ForItems(Listing(path), <<>>, 1)

\* faulty variant: no except branch, a failed listing is raised to the caller
list_all_files_no_except(path) == TryListing(path)

\* list_all_files: `except Exception` logs and falls through to
\* `return files`, so nothing is raised to the caller
list_all_files(path) ==
    LET body == TryListing(path) IN
    [files |-> body.files, raised |-> FALSE, requests |-> body.requests]

\* the state of the other scripts and of the filter step is left alone
ListUnchanged ==
    UNCHANGED <<monitorVars, batchVars, ppc, max_file_size_mb, max_size_mb,
                force_download, on_disk, file_pos, files_to_download,
                skipped_files, existing_files, no_size, summary,
                downloadVars, collectVars, furtherVars>>

ListInit ==
    /\ lpc = "build"
    /\ tree = <<>>
    /\ failing = {}
    /\ requests = 0
    /\ all_files = <<>>

\* the paths a listing request can be made for
Folders == {Root} \cup {q \in DOMAIN tree : tree[q] \in FolderSizes}

\* the store: the computation writes one more entry into a folder
AddEntry ==
    /\ lpc = "build"
    /\ Cardinality(DOMAIN tree) < MaxEntries
    /\ \E parent \in Folders, size \in FolderSizes \cup FileSizes :
         LET q == Append(parent, Cardinality(Children(parent)) + 1) IN
         tree' = [x \in DOMAIN tree \cup {q} |->
                     IF x = q THEN size ELSE tree[x]]
    /\ UNCHANGED <<lpc, failing, requests, all_files>>
    /\ ListUnchanged

\* the store: listing requests for one more path will fail
BreakPath ==
    /\ lpc = "build"
    /\ Cardinality(failing) < MaxFailures
    /\ \E p \in Folders \ failing : failing' = failing \cup {p}
    /\ UNCHANGED <<lpc, tree, requests, all_files>>
    /\ ListUnchanged

\* download_job: `all_files = list_all_files(co_client, job_id)`
ListFiles ==
    /\ lpc = "build"
    /\ LET result == list_all_files(Root) IN
       /\ all_files' = result.files
       /\ requests' = result.requests
       /\ lpc' = IF result.raised THEN "raised" ELSE "listed"
    /\ UNCHANGED <<tree, failing>>
    /\ ListUnchanged

ListNext == AddEntry \/ BreakPath \/ ListFiles

ListOthersIdle ==
    /\ ppc = "idle" /\ max_file_size_mb = None /\ force_download = FALSE
    /\ max_size_mb = 0
    /\ on_disk = {} /\ file_pos = 1 /\ files_to_download = <<>>
    /\ skipped_files = <<>> /\ existing_files = <<>> /\ no_size = {}
    /\ summary = <<>>

InitList ==
    ListInit /\ MonitorIdle /\ BatchIdle /\ ListOthersIdle /\ DownloadIdle
        /\ CollectIdle /\ FurtherIdle

SpecList == InitList /\ [][ListNext]_vars

(* ------------------- claims about list_all_files ----------------------- *)

\* a leaf object: an entry that is not a container (it has a size > 0)
IsLeaf(q) == tree[q] # None /\ tree[q] # 0

Leaves == {q \in DOMAIN tree : IsLeaf(q)}

\* how often path q occurs in all_files
Occurrences(q) == Cardinality({i \in DOMAIN all_files : all_files[i].path = q})

\* depth-first listing order of two entries: the first position where the
\* paths differ decides
ListedBefore(p, q) ==
    \E k \in 1..Len(p) :
        /\ k <= Len(q)
        /\ p[k] < q[k]
        /\ \A m \in 1..(k - 1) : p[m] = q[m]

\* all_files holds entries of the tree with their sizes, in listing order
InListingOrder ==
    /\ \A i \in DOMAIN all_files :
          /\ all_files[i].path \in DOMAIN tree
          /\ all_files[i].size = tree[all_files[i].path]
    /\ \A i, j \in DOMAIN all_files :
          i < j => ListedBefore(all_files[i].path, all_files[j].path)

\* C8: without listing failures list_all_files returns exactly the leaf
\* objects of the tree, each once with its path and size, in depth-first
\* listing order, and never a container.
C8_ExactlyTheLeaves ==
    (lpc # "build" /\ failing = {}) =>
        /\ lpc = "listed"
        /\ InListingOrder
        /\ \A q \in DOMAIN tree : Occurrences(q) = IF IsLeaf(q) THEN 1 ELSE 0

\* a nested file is spliced in before a later sibling of its folder, and a
\* folder of size 0 with a file in it was walked
C8_Witness ==
    /\ lpc = "listed" /\ failing = {}
    /\ \E i, j \in DOMAIN all_files :
          i < j /\ Len(all_files[i].path) = 2 /\ Len(all_files[j].path) = 1
    /\ \E q \in DOMAIN tree : tree[q] = 0 /\ Children(q) # {}

\* q lies in the subtree of a path whose listing fails
UnderFailure(q) == \E k \in 0..(Len(q) - 1) : SubSeq(q, 1, k) \in failing

\* C9: when listings fail the walk still completes without raising and
\* returns every leaf object outside the failed subtrees, once and in
\* listing order; only the objects under a failed path are missing.
C9_FailedSubtreeOmitted ==
    lpc # "build" =>
        /\ lpc = "listed"
        /\ InListingOrder
        /\ \A q \in DOMAIN tree :
              Occurrences(q) = IF IsLeaf(q) /\ ~UnderFailure(q) THEN 1 ELSE 0

\* the listing of a folder failed, a file below it is missing, and files
\* listed before and after that folder are returned
C9_Witness ==
    /\ lpc = "listed"
    /\ \E P \in failing :
          /\ P # Root
          /\ \E q \in Leaves : UnderFailure(q) /\ Occurrences(q) = 0
          /\ \E i, j \in DOMAIN all_files :
                /\ ListedBefore(all_files[i].path, P)
                /\ ListedBefore(P, all_files[j].path)

(* ========= code-ocean-api/get_url.py: download_job, filter step ======== *)

\* largest number of files in all_files
MaxFiles == 3

DEFAULT_MAX_FILE_SIZE_MB == 50

\* the separator "/" as a path element; the other elements are names
Slash == 0

\* the paths of the listed files: some with a leading separator, some
\* without one and nested
FilePath(i) == IF i % 2 = 1 THEN <<Slash, i>> ELSE <<i, 1>>

FilePaths == {FilePath(i) : i \in 1..MaxFiles}

\* sizes of the items handed to the filter: absent, below and above the limit
ItemSizes == {None} \cup FileSizes

RECURSIVE Lstrip(_)
\* `path.lstrip("/")`
Lstrip(path) ==
    IF path # <<>> /\ Head(path) = Slash THEN Lstrip(Tail(path)) ELSE path

\* `job_download_dir / rel_path`, relative to job_download_dir
DestFilePath(path) == Lstrip(path)

\* `size / (1024 * 1024)`, kept as an exact fraction
FileSizeMb(size) == [num |-> size, den |-> MiB]

\* faulty variant: the argument is passed on as it is
max_size_as_given(arg) == arg

\* `None if args.max_size_mb <= 0 else args.max_size_mb`
max_size(arg) == IF arg <= 0 THEN None ELSE arg

\* `max_file_size_mb is not None and file_size_mb > max_file_size_mb`
ExceedsLimit(file_size_mb, limit) ==
    limit # None /\ file_size_mb.num > limit * file_size_mb.den

\* faulty variant: force_download is not consulted
AlreadyExistsIgnoringForce(path, force) == DestFilePath(path) \in on_disk

\* `dest_file_path.exists() and not force_download`
AlreadyExists(path, force) == DestFilePath(path) \in on_disk /\ ~force

\* faulty variant: the size branch lacks its `continue`
RoutesWithoutContinue(file_item, limit, force) ==
    IF file_item.size = None THEN {}
    ELSE (IF ExceedsLimit(FileSizeMb(file_item.size), limit)
          THEN {"skipped_files"} ELSE {})
         \cup (IF AlreadyExists(file_item.path, force)
               THEN {"existing_files"} ELSE {"files_to_download"})

\* faulty variant: the existence check comes before the size check
RoutesExistenceFirst(file_item, limit, force) ==
    IF file_item.size = None THEN {}
    ELSE IF AlreadyExists(file_item.path, force) THEN {"existing_files"}
    ELSE IF ExceedsLimit(FileSizeMb(file_item.size), limit)
    THEN {"skipped_files"}
    ELSE {"files_to_download"}

\* the lists one iteration of the filter loop appends file_item to
Routes(file_item, limit, force) ==
    IF file_item.size = None THEN {}
    ELSE IF ExceedsLimit(FileSizeMb(file_item.size), limit)
    THEN {"skipped_files"}
    ELSE IF AlreadyExists(file_item.path, force) THEN {"existing_files"}
    ELSE {"files_to_download"}

\* every list of at most MaxFiles items with distinct paths
ItemLists ==
    UNION {{f \in [1..n -> [path : FilePaths, size : ItemSizes]] :
               \A i, j \in 1..n : i # j => f[i].path # f[j].path}
           : n \in 1..MaxFiles}

\* the state of the other scripts and of the walk is left alone
FilterUnchanged ==
    UNCHANGED <<monitorVars, batchVars, listVars, downloadVars,
                collectVars, furtherVars>>

\* all_files is not empty when the filter step starts
FilterInit ==
    /\ ppc = "filter"
    /\ all_files \in ItemLists
    /\ max_size_mb \in {0, DEFAULT_MAX_FILE_SIZE_MB}
    /\ max_file_size_mb = max_size(max_size_mb)
    /\ force_download \in BOOLEAN
    /\ on_disk \in SUBSET {DestFilePath(p) : p \in FilePaths}
    /\ file_pos = 1
    /\ files_to_download = <<>>
    /\ skipped_files = <<>>
    /\ existing_files = <<>>
    /\ no_size = {}
    /\ summary = <<>>

\* one iteration of `for file_item in all_files`
FilterFile ==
    /\ ppc = "filter"
    /\ file_pos <= Len(all_files)
    /\ LET file_item == all_files[file_pos]
           routes == Routes(file_item, max_file_size_mb, force_download)
           entry == <<file_item.path, FileSizeMb(file_item.size)>>
       IN
       /\ no_size' = IF file_item.size = None
                     THEN no_size \cup {file_item.path} ELSE no_size
       /\ skipped_files' = IF "skipped_files" \in routes
                           THEN Append(skipped_files, entry)
                           ELSE skipped_files
       /\ existing_files' = IF "existing_files" \in routes
                            THEN Append(existing_files, entry)
                            ELSE existing_files
       /\ files_to_download' = IF "files_to_download" \in routes
                               THEN Append(files_to_download, file_item)
                               ELSE files_to_download
    /\ file_pos' = file_pos + 1
    /\ UNCHANGED <<ppc, all_files, max_file_size_mb, max_size_mb,
                force_download, on_disk,
                   summary>>
    /\ FilterUnchanged

\* the download summary printed after the loop
ShowSummary ==
    /\ ppc = "filter"
    /\ file_pos > Len(all_files)
    /\ summary' = [total_found |-> Len(all_files),
                   to_download |-> Len(files_to_download),
                   skipped |-> Len(skipped_files),
                   existing |-> Len(existing_files)]
    /\ ppc' = "filtered"
    /\ UNCHANGED <<all_files, max_file_size_mb, max_size_mb,
                force_download, on_disk,
                   file_pos, files_to_download, skipped_files, existing_files,
                   no_size>>
    /\ FilterUnchanged

FilterNext == FilterFile \/ ShowSummary

InitFilter ==
    FilterInit /\ MonitorIdle /\ BatchIdle /\ ListIdle /\ DownloadIdle
        /\ CollectIdle /\ FurtherIdle

SpecFilter == InitFilter /\ [][FilterNext]_vars

(* --------------------- claims about the filter step -------------------- *)

\* the paths of the three outputs, in output order
DownloadPaths == [i \in DOMAIN files_to_download |-> files_to_download[i].path]
SkippedPaths == [i \in DOMAIN skipped_files |-> skipped_files[i][1]]
ExistingPaths == [i \in DOMAIN existing_files |-> existing_files[i][1]]

Count(path, paths) == Cardinality({i \in DOMAIN paths : paths[i] = path})

\* the position of a path in all_files
InputPos(path) == CHOOSE i \in DOMAIN all_files : all_files[i].path = path

\* an output lists input paths in the order of the input
KeepsInputOrder(paths) ==
    /\ \A i \in DOMAIN paths : \E k \in DOMAIN all_files :
          all_files[k].path = paths[i]
    /\ \A i, j \in DOMAIN paths :
          i < j => InputPos(paths[i]) < InputPos(paths[j])

\* C10: the filter step is exhaustive and order-preserving: every object
\* with a known size is in exactly one of files_to_download, skipped_files,
\* existing_files, an object is in none only if its size is absent, each
\* output keeps the input order, and the printed total equals the sum of
\* the three counts and the objects dropped for a missing size.
C10_PartitionExhaustive ==
    /\ \A k \in DOMAIN all_files :
          LET path == all_files[k].path IN
          Count(path, DownloadPaths) + Count(path, SkippedPaths)
              + Count(path, ExistingPaths)
            = IF k < file_pos /\ all_files[k].size # None THEN 1 ELSE 0
    /\ KeepsInputOrder(DownloadPaths)
    /\ KeepsInputOrder(SkippedPaths)
    /\ KeepsInputOrder(ExistingPaths)
    /\ \A i \in DOMAIN files_to_download : InSeq(files_to_download[i], all_files)
    /\ no_size = {all_files[k].path : k \in {i \in 1..(file_pos - 1) :
                                              all_files[i].size = None}}
    /\ ppc = "filtered" =>
          /\ summary.total_found = Len(all_files)
          /\ summary.total_found =
                summary.to_download + summary.skipped + summary.existing
                    + Cardinality(no_size)

\* a run that filled two outputs and dropped an object without a size
C10_Witness ==
    /\ ppc = "filtered"
    /\ Len(all_files) = 3
    /\ Cardinality(no_size) = 1
    /\ Len(skipped_files) + Len(existing_files) >= 1
    /\ Len(files_to_download) >= 1

\* the file at position k has a known size above the limit in force
Oversized(k) ==
    /\ all_files[k].size # None
    /\ max_file_size_mb # None
    /\ all_files[k].size > max_file_size_mb * MiB

\* C11: the size check comes before the existence check: an object larger
\* than max_file_size_mb goes to skipped_files and to no other output,
\* whether or not its destination file exists and whatever force is.
C11_SizeCheckFirst ==
    \A k \in 1..(file_pos - 1) :
        Oversized(k) =>
            /\ Count(all_files[k].path, SkippedPaths) = 1
            /\ Count(all_files[k].path, ExistingPaths) = 0
            /\ Count(all_files[k].path, DownloadPaths) = 0

\* an oversized object whose destination file exists was filtered without
\* force, next to an object within the limit
C11_Witness ==
    /\ ppc = "filtered"
    /\ \E k \in DOMAIN all_files :
          /\ Oversized(k)
          /\ DestFilePath(all_files[k].path) \in on_disk
          /\ ~force_download
    /\ \E k \in DOMAIN all_files :
          ~Oversized(k) /\ all_files[k].size # None

(* ====== code-ocean-api/get_url.py: download_job, after the summary ===== *)

\* largest number of objects in the returned tree of the downloaded job
MaxObjects == 3

\* the listing of the job: the same objects in the same order in both runs
ObjectLists ==
    UNION {{f \in [1..n -> [path : {FilePath(i) : i \in 1..n},
                            size : FileSizes]] :
               \A i \in 1..n : f[i].path = FilePath(i)}
           : n \in 1..MaxObjects}

\* faulty variant: the leading separator is kept
dest_path_keeps_slash(file_path) == file_path

\* `job_download_dir / file_path.lstrip("/")`, relative to job_download_dir
dest_path(file_path) == Lstrip(file_path)

\* faulty variant: the first error ends the loop
after_error_break(pos, n) == n + 1

\* the loop position after an error was logged: `continue`, or the end of
\* the except/finally block
after_error(pos, n) == pos + 1

\* faulty variant: only a successful transfer advances the overall task
overall_advance_on_success(completed, failed) ==
    IF failed THEN completed ELSE completed + 1

\* `progress.update(overall_task, advance=1)`, in the except branch of the
\* URL request and in the finally block of the transfer
overall_advance(completed, failed) == completed + 1

\* faulty variant: the answer is not looked at
ProceedsAlways(reply) == TRUE

\* `if not Confirm.ask(message, default=False): ... return`: the work goes
\* on only after a yes
Proceeds(reply) == reply

\* what download_file leaves at dest_path: raise_for_status comes before
\* open(dest_path, "wb"), a failure while streaming comes after it
TransferOutcomes == {"written", "http_error", "stream_error"}

\* content tag of a local file
FileBy(r, complete) == [writer |-> r, complete |-> complete]

\* the local files dest_path names before the first run, written earlier
DiskBefore(dests) == [d \in dests |-> FileBy(0, TRUE)]

\* faulty variant: a failed transfer leaves no file behind it
DiskAfterRollback(d, outcome) ==
    IF outcome = "written"
    THEN [e \in DOMAIN disk \cup {d} |->
             IF e = d THEN FileBy(run, TRUE) ELSE disk[e]]
    ELSE [e \in DOMAIN disk \ {d} |-> disk[e]]

\* the disk after download_file ended with outcome on destination d
DiskAfter(d, outcome) ==
    IF outcome = "http_error" THEN disk
    ELSE [e \in DOMAIN disk \cup {d} |->
             IF e = d THEN FileBy(run, outcome = "written") ELSE disk[e]]

DownloadFilterUnchanged ==
    UNCHANGED <<all_files, max_file_size_mb, max_size_mb,
                force_download, on_disk,
                file_pos, files_to_download, skipped_files, existing_files,
                no_size, summary, ppc>>

DownloadUnchanged ==
    UNCHANGED <<monitorVars, batchVars, listVars, collectVars, furtherVars>>

\* download_job is called on a job whose results were listed
DownloadInit ==
    /\ ppc = "filter"
    /\ all_files \in ObjectLists
    /\ max_size_mb \in {0, DEFAULT_MAX_FILE_SIZE_MB}
    /\ max_file_size_mb = max_size(max_size_mb)
    /\ force_download \in BOOLEAN
    /\ on_disk \in SUBSET {DestFilePath(FilePath(i)) : i \in 1..MaxObjects}
    /\ file_pos = 1
    /\ files_to_download = <<>>
    /\ skipped_files = <<>>
    /\ existing_files = <<>>
    /\ no_size = {}
    /\ summary = <<>>
    /\ dpc = "start"
    /\ run = 1
    /\ returned = FALSE
    /\ answer = FALSE
    /\ dl_pos = 1
    /\ attempted = <<>>
    /\ active = {}
    /\ fetched = {}
    /\ errored = {}
    /\ overall = 0
    /\ disk = DiskBefore(on_disk)
    /\ prev = <<>>
    /\ truncated = {}

\* `if not files_to_download: return True`
NothingToDownload ==
    /\ ppc = "filtered" /\ dpc = "start"
    /\ files_to_download = <<>>
    /\ dpc' = "done"
    /\ returned' = TRUE
    /\ UNCHANGED <<run, answer, dl_pos, attempted, active, fetched, errored,
                   overall, disk, prev,
                   truncated>>
    /\ DownloadFilterUnchanged /\ DownloadUnchanged

\* `if not Confirm.ask(message, default=False): return False`
Confirm ==
    /\ ppc = "filtered" /\ dpc = "start"
    /\ files_to_download # <<>>
    /\ \E reply \in BOOLEAN :
          /\ answer' = reply
          /\ dpc' = IF Proceeds(reply) THEN "loop" ELSE "done"
    /\ returned' = FALSE
    /\ UNCHANGED <<run, dl_pos, attempted, active, fetched, errored, overall,
                   disk, prev,
                   truncated>>
    /\ DownloadFilterUnchanged /\ DownloadUnchanged

\* one iteration of `for file_item in files_to_download` up to the call of
\* download_file: the URL is requested; on an exception the error is logged
\* and the loop continues
GetUrl ==
    /\ dpc = "loop"
    /\ dl_pos <= Len(files_to_download)
    /\ LET file_path == files_to_download[dl_pos].path IN
       /\ attempted' = Append(attempted, file_path)
       /\ \E raises \in BOOLEAN :
             IF raises
             THEN /\ errored' = errored \cup {file_path}
                  /\ overall' = overall_advance(overall, TRUE)
                  /\ dl_pos' = after_error(dl_pos, Len(files_to_download))
                  /\ UNCHANGED <<dpc, active>>
             ELSE /\ active' = active \cup {dest_path(file_path)}
                  /\ dpc' = "transfer"
                  /\ UNCHANGED <<errored, overall, dl_pos>>
    /\ UNCHANGED <<run, returned, answer, fetched, disk, prev,
                   truncated>>
    /\ DownloadFilterUnchanged /\ DownloadUnchanged

\* download_file ends, and with it the iteration: except logs the error,
\* finally advances the overall progress
EndTransfer ==
    /\ dpc = "transfer"
    /\ LET file_path == files_to_download[dl_pos].path
           d == dest_path(file_path)
       IN
       \E outcome \in TransferOutcomes :
          /\ disk' = DiskAfter(d, outcome)
          /\ truncated' = IF outcome = "stream_error"
                          THEN truncated \cup {file_path}
                          ELSE IF outcome = "written"
                          THEN truncated \ {file_path}
                          ELSE truncated
          /\ on_disk' = DOMAIN disk'
          /\ active' = active \ {d}
          /\ IF outcome = "written"
             THEN /\ fetched' = fetched \cup {file_path}
                  /\ dl_pos' = dl_pos + 1
                  /\ UNCHANGED errored
             ELSE /\ errored' = errored \cup {file_path}
                  /\ dl_pos' = after_error(dl_pos, Len(files_to_download))
                  /\ UNCHANGED fetched
          /\ overall' = overall_advance(overall, outcome # "written")
    /\ dpc' = "loop"
    /\ UNCHANGED <<run, returned, answer, attempted, prev>>
    /\ UNCHANGED <<all_files, max_file_size_mb, max_size_mb,
                force_download, file_pos,
                   files_to_download, skipped_files, existing_files, no_size,
                   summary, ppc>>
    /\ DownloadUnchanged

\* "Download complete" is printed and download_job returns True
FinishDownload ==
    /\ dpc = "loop"
    /\ dl_pos > Len(files_to_download)
    /\ dpc' = "done"
    /\ returned' = TRUE
    /\ UNCHANGED <<run, answer, dl_pos, attempted, active, fetched, errored,
                   overall, disk, prev,
                   truncated>>
    /\ DownloadFilterUnchanged /\ DownloadUnchanged

\* the script is run again on the same job with the same size limit; the
\* listing and the local files are as the first run left them
RunAgain ==
    /\ dpc = "done"
    /\ run = 1
    /\ prev' = [force |-> force_download,
                answer |-> answer,
                to_download |-> {files_to_download[i].path :
                                    i \in DOMAIN files_to_download},
                fetched |-> fetched,
                result |-> returned]
    /\ run' = 2
    /\ force_download' \in BOOLEAN
    /\ ppc' = "filter"
    /\ file_pos' = 1
    /\ files_to_download' = <<>>
    /\ skipped_files' = <<>>
    /\ existing_files' = <<>>
    /\ no_size' = {}
    /\ summary' = <<>>
    /\ dpc' = "start"
    /\ returned' = FALSE
    /\ answer' = FALSE
    /\ dl_pos' = 1
    /\ attempted' = <<>>
    /\ fetched' = {}
    /\ errored' = {}
    /\ overall' = 0
    /\ UNCHANGED <<all_files, max_file_size_mb, max_size_mb,
                on_disk, active, disk, truncated>>
    /\ DownloadUnchanged

DownloadNext ==
    \/ FilterFile
    \/ ShowSummary
    \/ NothingToDownload
    \/ Confirm
    \/ GetUrl
    \/ EndTransfer
    \/ FinishDownload
    \/ RunAgain

InitDownload ==
    DownloadInit /\ MonitorIdle /\ BatchIdle /\ ListIdle /\ CollectIdle
        /\ FurtherIdle

SpecDownload == InitDownload /\ [][DownloadNext]_vars

(* ------------------- claims about the download loop -------------------- *)

\* the paths selected for download in this run
ToDownload == {files_to_download[i].path : i \in DOMAIN files_to_download}

\* the first run was without force, was confirmed and transferred every
\* object of its to_download set, and the second run is without force
ResumesCleanFirstRun ==
    /\ run = 2
    /\ ~prev.force
    /\ prev.answer
    /\ prev.fetched = prev.to_download
    /\ ~force_download

\* C12: idempotent resume: after a first run without force that the user
\* confirmed and that transferred every object of its to_download set, a
\* second run without force and with the same size limit on the unchanged
\* listing selects nothing for download, finds every object of the first
\* to_download set already present, and requests no URL and starts no
\* transfer; it returns True.
C12_IdempotentResume ==
    ResumesCleanFirstRun =>
        /\ files_to_download = <<>>
        /\ \A k \in 1..(file_pos - 1) :
              all_files[k].path \in prev.to_download =>
                  Count(all_files[k].path, ExistingPaths) = 1
        /\ attempted = <<>>
        /\ active = {}
        /\ fetched = {}
        /\ \A d \in DOMAIN disk : disk[d].writer # 2
        /\ dpc = "done" => returned

\* a second run without force ended after a first run that fetched at
\* least two objects, one of them with a leading separator in its path
C12_Witness ==
    /\ ResumesCleanFirstRun
    /\ dpc = "done"
    /\ Cardinality(prev.to_download) >= 2
    /\ \E path \in prev.to_download : Head(path) = Slash
    /\ Len(existing_files) >= 2

\* C13: with force an existing destination file never prevents a download:
\* existing_files stays empty and every object within the size limit is in
\* files_to_download whatever is on the disk; in a confirmed run the URL of
\* each of them is requested once more, and every transfer that download_file
\* completes leaves the file written by this run in place of the old one.
C13_ForceRefetches ==
    force_download =>
        /\ existing_files = <<>>
        /\ \A k \in 1..(file_pos - 1) :
              (all_files[k].size # None /\ ~Oversized(k)) =>
                  Count(all_files[k].path, DownloadPaths) = 1
        /\ (dpc = "done" /\ answer) =>
              \A path \in ToDownload : Count(path, attempted) = 1
        /\ \A path \in fetched :
              /\ dest_path(path) \in DOMAIN disk
              /\ disk[dest_path(path)] = FileBy(run, TRUE)

\* a forced second run fetched an object again that the first run had
\* fetched, with another object skipped for its size
C13_Witness ==
    /\ run = 2
    /\ force_download
    /\ dpc = "done"
    /\ \E path \in fetched : path \in prev.fetched
    /\ \E path \in fetched : disk[dest_path(path)].writer = 2
    /\ skipped_files # <<>>

\* C16 (as stated): download_job returns True only if no object selected
\* for download failed.
C16_TrueOnlyWithoutErrors ==
    (dpc = "done" /\ returned) => errored = {}

(* ================= single-site-collect-data/main.py ==================== *)

\* largest number of S3 locations collected from the records
MaxAssets == 5

MAX_CONCURRENT_DOWNLOADS == 4

\* how the locations of the records are named: all last path components
\* differ, two locations in different buckets end in the same component,
\* or one location is a bare bucket
Layouts == {"distinct", "same_name", "bucket_only"}

\* the i-th S3 location: s3://<netloc>/<path>
Location(i, layout) ==
    [netloc |-> <<"bucket", i>>,
     path |-> IF layout = "bucket_only" /\ i = 1 THEN <<>>
              ELSE IF layout = "same_name" /\ i = 2
              THEN <<<<"key", 2>>, <<"key", 1>>>>
              ELSE <<<<"key", i>>>>]

\* `Path(parsed.path).name`: the last component, "" (here <<>>) without one
PathName(path) == IF path = <<>> THEN <<>> ELSE path[Len(path)]

\* `output_root / (Path(parsed.path).name or parsed.netloc)`, relative to
\* output_root
dest_dir(s3_uri) ==
    IF PathName(s3_uri.path) # <<>> THEN PathName(s3_uri.path)
    ELSE s3_uri.netloc

\* the futures whose download_s3_asset call is running in a worker thread
Running == {i \in DOMAIN futures : futures[i] = "running"}

\* faulty variant: a thread for every submitted call
WorkerAlwaysAvailable(busy) == TRUE

\* ThreadPoolExecutor(max_workers=MAX_CONCURRENT_DOWNLOADS): a queued call
\* starts only while fewer than max_workers calls are running
WorkerAvailable(busy) == Cardinality(busy) < MAX_CONCURRENT_DOWNLOADS

\* how a download_s3_asset call ends: `aws s3 sync` exits with 0, exits
\* with another code (check=True), or cannot be run at all
SyncOutcomes == {"returned", "CalledProcessError", "OSError"}

\* faulty variant: the except branches do not record a status
StatusOfWithoutError(outcome) ==
    IF outcome = "returned" THEN "Done" ELSE "Downloading"

\* the status the as_completed loop records for a finished future
StatusOf(outcome) == IF outcome = "returned" THEN "Done" ELSE "Error"

CollectUnchanged ==
    UNCHANGED <<monitorVars, batchVars, listVars, filterVars, downloadVars,
                furtherVars>>

\* the records were retrieved and their locations collected into uris
CollectInit ==
    /\ cpc = "start"
    /\ \E n \in 0..MaxAssets, layout \in Layouts :
          uris = [i \in 1..n |-> Location(i, layout)]
    /\ statuses = <<>>
    /\ sub_pos = 1
    /\ futures = <<>>
    /\ collected = {}
    /\ advanced = 0

\* `if not uris: return`
NoAssets ==
    /\ cpc = "start"
    /\ uris = <<>>
    /\ cpc' = "done"
    /\ UNCHANGED <<uris, statuses, sub_pos, futures, collected, advanced>>
    /\ CollectUnchanged

\* Confirm.ask; on yes every asset gets the status "Not started"
AskProceed ==
    /\ cpc = "start"
    /\ uris # <<>>
    /\ \E reply \in BOOLEAN :
          IF Proceeds(reply)
          THEN /\ statuses' = [i \in DOMAIN uris |-> "Not started"]
               /\ cpc' = "submit"
          ELSE /\ cpc' = "done"
               /\ UNCHANGED statuses
    /\ UNCHANGED <<uris, sub_pos, futures, collected, advanced>>
    /\ CollectUnchanged

\* one iteration of the submit loop; after the last one the Live display
\* and the as_completed loop are entered
SubmitAsset ==
    /\ cpc = "submit"
    /\ sub_pos <= Len(uris)
    /\ statuses' = [statuses EXCEPT ![sub_pos] = "Downloading"]
    /\ futures' = Append(futures, "queued")
    /\ sub_pos' = sub_pos + 1
    /\ cpc' = IF sub_pos = Len(uris) THEN "collect" ELSE "submit"
    /\ UNCHANGED <<uris, collected, advanced>>
    /\ CollectUnchanged

\* a worker thread takes the oldest queued call and starts `aws s3 sync`
StartSync ==
    /\ \E i \in DOMAIN futures :
          /\ futures[i] = "queued"
          /\ \A j \in 1..(i - 1) : futures[j] # "queued"
          /\ WorkerAvailable(Running)
          /\ futures' = [futures EXCEPT ![i] = "running"]
    /\ UNCHANGED <<cpc, uris, statuses, sub_pos, collected, advanced>>
    /\ CollectUnchanged

\* `aws s3 sync` ends and with it the call of download_s3_asset
EndSync ==
    /\ \E i \in Running, outcome \in SyncOutcomes :
          futures' = [futures EXCEPT ![i] = outcome]
    /\ UNCHANGED <<cpc, uris, statuses, sub_pos, collected, advanced>>
    /\ CollectUnchanged

\* one iteration of `for future in as_completed(futures)`
CollectFuture ==
    /\ cpc = "collect"
    /\ \E i \in DOMAIN futures :
          /\ futures[i] \in SyncOutcomes
          /\ i \notin collected
          /\ statuses' = [statuses EXCEPT ![i] = StatusOf(futures[i])]
          /\ collected' = collected \cup {i}
    /\ advanced' = advanced + 1
    /\ UNCHANGED <<cpc, uris, sub_pos, futures>>
    /\ CollectUnchanged

\* as_completed is exhausted; the executor and the display are closed
FinishCollect ==
    /\ cpc = "collect"
    /\ collected = DOMAIN futures
    /\ cpc' = "done"
    /\ UNCHANGED <<uris, statuses, sub_pos, futures, collected, advanced>>
    /\ CollectUnchanged

CollectNext ==
    \/ NoAssets
    \/ AskProceed
    \/ SubmitAsset
    \/ StartSync
    \/ EndSync
    \/ CollectFuture
    \/ FinishCollect

InitCollect ==
    CollectInit /\ MonitorIdle /\ BatchIdle /\ ListIdle /\ FilterIdle
        /\ DownloadIdle /\ FurtherIdle

SpecCollect == InitCollect /\ [][CollectNext]_vars

\* both downloaders: a run of the S3 collector or of download_job
InitTransfers == InitCollect \/ InitDownload

TransfersNext == CollectNext \/ DownloadNext

SpecTransfers == InitTransfers /\ [][TransfersNext]_vars

(* ------------------- claims about both downloaders --------------------- *)

\* C14: the number of simultaneously active transfers never exceeds the
\* worker count: at most MAX_CONCURRENT_DOWNLOADS `aws s3 sync` processes
\* run at once in the S3 collector, and download_job has at most one
\* download_file call in progress.
C14_ActiveTransfersBounded ==
    /\ Cardinality(Running) <= MAX_CONCURRENT_DOWNLOADS
    /\ Cardinality(active) <= 1

\* all workers of the pool are busy while another submitted call waits
C14_Witness ==
    /\ Cardinality(Running) = MAX_CONCURRENT_DOWNLOADS
    /\ \E i \in DOMAIN futures : futures[i] = "queued"

\* C15: per-object failure isolation: a failed URL request or transfer ends
\* that object's task with an error and is not retried, and every other
\* object is still requested and transferred or reported: when a confirmed
\* download_job run ends, every selected object was requested exactly once
\* and is either fetched or errored; when a confirmed collector run ends,
\* every asset's sync has ended and its status is Done or Error according
\* to its own outcome.
C15_FailureIsolation ==
    /\ \A path \in ToDownload : Count(path, attempted) <= 1
    /\ (dpc = "done" /\ answer) =>
          /\ \A path \in ToDownload :
                /\ Count(path, attempted) = 1
                /\ path \in fetched \cup errored
                /\ path \notin fetched \cap errored
          /\ overall = Len(files_to_download)
    /\ (cpc = "done" /\ statuses # <<>>) =>
          /\ \A i \in DOMAIN uris :
                /\ futures[i] \in SyncOutcomes
                /\ statuses[i] = StatusOf(futures[i])
          /\ advanced = Len(uris)

\* a confirmed run ended in which the second of three objects failed and
\* the first and the third were fetched
C15_Witness ==
    /\ dpc = "done" /\ answer
    /\ Len(files_to_download) = 3
    /\ files_to_download[1].path \in fetched
    /\ files_to_download[2].path \in errored
    /\ files_to_download[3].path \in fetched

\* C20 (as stated): no two download tasks of one run have the same local
\* destination.
C20_DistinctDestinations ==
    /\ \A i, j \in DOMAIN futures :
          i # j => dest_dir(uris[i]) # dest_dir(uris[j])
    /\ \A i, j \in DOMAIN files_to_download :
          i # j => dest_path(files_to_download[i].path)
                       # dest_path(files_to_download[j].path)

(* ---------------- claims about main of get_url.py --------------------- *)

\* main runs in batch mode
BatchMode == config.jobs_file # "none"

\* the calls of download_job that returned True
Succeeded == {i \in DOMAIN calls : download_job_returns(calls[i].outcome)}

C18_ListingOnlyTerminalWithResults ==
    \A i \in DOMAIN calls : calls[i].outcome # "skipped" => calls[i].ready

\* neither a job id nor a jobs file is given, or the jobs file is missing,
\* unreadable, or holds no job with a computation id
ConfigurationError ==
    \/ config.jobs_file = "none" /\ config.job_id = None
    \/ config.jobs_file \in {"missing", "unreadable"}
    \/ /\ config.jobs_file = "readable"
       /\ \A i \in DOMAIN config.manifest : config.manifest[i] = None

\* C19: configuration errors are fatal before any remote activity: main
\* ends without a status probe, a download_job call (listing, URL request,
\* transfer) or a local write.
C19_ConfigErrorsBeforeRemote ==
    ConfigurationError =>
        /\ remote = {}
        /\ calls = <<>>
        /\ status_table = <<>>
        /\ bpc \in {"start", "ended", "crashed"}

\* main ended on a jobs file whose two entries have no computation id
C19_Witness ==
    /\ bpc = "ended"
    /\ config.jobs_file = "readable"
    /\ Len(config.manifest) >= 2
    /\ \A i \in DOMAIN config.manifest : config.manifest[i] = None

(* ------------------ claims about the submission phase ------------------ *)

MaxSizeArgs == {-2, 0, DEFAULT_MAX_FILE_SIZE_MB}

\* the script is started from the command line on one job; download_job
\* has listed the results and starts filtering
CliInit ==
    /\ ppc = "filter"
    /\ all_files \in ObjectLists
    /\ max_size_mb \in MaxSizeArgs
    /\ max_file_size_mb = max_size(max_size_mb)
    /\ force_download \in BOOLEAN
    /\ on_disk \in SUBSET {DestFilePath(FilePath(i)) : i \in 1..MaxObjects}
    /\ file_pos = 1
    /\ files_to_download = <<>>
    /\ skipped_files = <<>>
    /\ existing_files = <<>>
    /\ no_size = {}
    /\ summary = <<>>

InitCli ==
    CliInit /\ MonitorIdle /\ BatchIdle /\ ListIdle /\ DownloadIdle
        /\ CollectIdle /\ FurtherIdle

SpecCli == InitCli /\ [][FilterNext]_vars

\* C22: a size limit of 0 means unlimited: started with --max-size-mb 0 or
\* a negative value, the run routes no object to skipped_files, whatever
\* its size.
C22_ZeroMeansUnlimited ==
    max_size_mb <= 0 =>
        /\ skipped_files = <<>>
        /\ \A k \in 1..(file_pos - 1) :
              Count(all_files[k].path, DownloadPaths)
                  + Count(all_files[k].path, ExistingPaths) = 1
        /\ ppc = "filtered" => summary.skipped = 0

\* a run with --max-size-mb 0 selected an object larger than the default
\* limit for download
C22_Witness ==
    /\ ppc = "filtered"
    /\ max_size_mb = 0
    /\ \E i \in DOMAIN files_to_download :
          files_to_download[i].size > DEFAULT_MAX_FILE_SIZE_MB * MiB

(* --------------- further claims about the monitoring loop -------------- *)

\* C23: within one poll pass every job that has a computation id is probed
\* exactly once, in manifest order, also when probes of other jobs in the
\* pass raise: the jobs probed so far are exactly the jobs with an id before
\* the loop position, a step of the loop probes only the job at the loop
\* position, and that job was not probed before in the pass.
C23_EveryJobProbedOncePerPass ==
    /\ [](probed = {j \in DOMAIN jobs : j < job_pos /\ HasId(j)})
    /\ [](failed_probe \subseteq probed)
    /\ [][\/ probed' = probed
          \/ probed' = {}
          \/ /\ job_pos \notin probed
             /\ probed' = probed \cup {job_pos}
             /\ job_pos' = job_pos + 1]_vars

\* a pass ended in which the probe of the first job raised and the second
\* job was probed after it
C23_Witness ==
    /\ mpc \in {"sleep", "done"}
    /\ 1 \in failed_probe
    /\ 2 \in probed
    /\ 2 \notin failed_probe

\* C24 (as stated): a pass issues no status request for a job whose
\* recorded state is completed, failed or stopped.
C24_NoProbeOfTerminalJob ==
    [][\A j \in DOMAIN jobs :
          jobs[j].status \in terminal_states
              => ~(j \notin probed /\ j \in probed')]_vars

\* C25 (as stated): after a job recorded as terminal was reported
\* non-terminal again, the loop keeps polling until the job is reported
\* terminal again: it never exits while such a job is waiting.
C25_RenewedWaitHolds == mpc = "done" => renewed = {}

(* ---------------- further claims about the download loop --------------- *)

\* C26: a transfer that fails mid-stream leaves its partly written file at
\* the destination, and a following run without force finds the object
\* already present and does not request it again, so the truncated file
\* stays; only a run with force selects the object again.
C26_PartialFilePersists ==
    \A k \in DOMAIN all_files :
        LET path == all_files[k].path
            d == dest_path(path)
        IN
        path \in truncated =>
            /\ d \in DOMAIN disk
            /\ ~disk[d].complete
            /\ d \in on_disk
            /\ (run = 2 /\ disk[d].writer = 1 /\ ~force_download) =>
                  /\ Count(path, DownloadPaths) = 0
                  /\ Count(path, attempted) = 0
                  /\ k < file_pos => Count(path, ExistingPaths) = 1
            /\ (run = 2 /\ disk[d].writer = 1 /\ force_download
                  /\ k < file_pos) =>
                  Count(path, DownloadPaths) = 1

\* the first run broke off the transfer of an object mid-stream, and a
\* second run without force ended with the truncated file still in place
C26_Witness ==
    /\ run = 2 /\ dpc = "done" /\ ~force_download
    /\ \E path \in truncated :
          /\ disk[dest_path(path)] = FileBy(1, FALSE)
          /\ Count(path, ExistingPaths) = 1

\* C27: no retries and exact accounting: the URL requests of a run are
\* the selected objects in order, each once, with no object left out, and
\* the overall progress task is advanced once per finished object on every
\* path, so it equals the number of selected objects when the loop ends;
\* the collector advances its counter once per collected future and ends
\* with the counter at the number of assets.
C27_ExactAccounting ==
    /\ Len(attempted) <= Len(files_to_download)
    /\ \A i \in DOMAIN attempted : attempted[i] = files_to_download[i].path
    /\ Len(attempted) = IF dpc = "transfer" THEN dl_pos ELSE dl_pos - 1
    /\ overall = dl_pos - 1
    /\ Cardinality(fetched) + Cardinality(errored) = overall
    /\ (dpc = "done" /\ answer) => overall = Len(files_to_download)
    /\ advanced = Cardinality(collected)
    /\ (cpc = "done" /\ statuses # <<>>) => advanced = Len(uris)

\* a confirmed run ended with one object failing before a file was opened,
\* one failing mid-stream and one fetched
C27_Witness ==
    /\ dpc = "done" /\ answer
    /\ overall = 3
    /\ Cardinality(errored) = 2
    /\ Cardinality(fetched) = 1
    /\ \E path \in errored : dest_path(path) \notin DOMAIN disk
    /\ truncated # {}

(* ------------------ further claims about the collector ----------------- *)

\* a step of a worker thread: a submitted call starts or ends
WorkerStep ==
    /\ Len(futures') = Len(futures)
    /\ futures' # futures

\* C28: the status map and the overall counter of the collector are written
\* by the main thread only: a step of a worker thread running
\* download_s3_asset leaves them as they are, every status is written in
\* the submit loop or in the as_completed loop, and when the pool is drained
\* every asset's status is Done or Error and the counter equals the number
\* of assets.
C28_SingleWriter ==
    /\ [][WorkerStep => UNCHANGED <<statuses, advanced, collected>>]_vars
    /\ [][statuses' # statuses => cpc \in {"start", "submit", "collect"}
                                   /\ futures' \in {futures,
                                                    Append(futures, "queued")}
         ]_vars
    /\ []((cpc = "done" /\ statuses # <<>>) =>
             /\ \A i \in DOMAIN uris : statuses[i] \in {"Done", "Error"}
             /\ advanced = Len(uris))

\* a run with more assets than workers ended with some syncs failed and
\* some done
C28_Witness ==
    /\ cpc = "done"
    /\ statuses # <<>>
    /\ Len(uris) > MAX_CONCURRENT_DOWNLOADS
    /\ \E i \in DOMAIN uris : statuses[i] = "Error"
    /\ \E i \in DOMAIN uris : statuses[i] = "Done"

(* ---------------------- claims about all runs -------------------------- *)

\* a run of the collector, of download_job, or of main of get_url.py
InitRuns == InitTransfers \/ InitBatch

RunsNext == TransfersNext \/ BatchNext

SpecRuns == InitRuns /\ [][RunsNext]_vars

\* download_job ended because the user declined the prompt
Declined == dpc = "done" /\ files_to_download # <<>> /\ ~answer

\* C29: the confirmation gates all bulk work: after a no, download_job
\* returns False having requested no URL, started no transfer and written
\* no destination file, and the collector ends having submitted no sync;
\* in batch mode a declined job returns False without URL requests and the
\* jobs after it are still processed.
C29_ConfirmGatesWork ==
    /\ Declined =>
          /\ ~returned
          /\ attempted = <<>>
          /\ active = {} /\ fetched = {} /\ errored = {} /\ overall = 0
          /\ \A d \in DOMAIN disk : disk[d].writer # run
    /\ (cpc = "done" /\ uris # <<>> /\ statuses = <<>>) =>
          futures = <<>> /\ collected = {} /\ advanced = 0
    /\ \A i \in DOMAIN calls :
          calls[i].outcome = "declined" =>
              /\ ~download_job_returns(calls[i].outcome)
              /\ "url_and_transfer" \notin RemoteOf(calls[i].outcome)
              /\ (BatchMode /\ bpc = "ended") =>
                    Len(calls) = Len(jobs_to_download)

\* the user declined a second run that would have fetched two objects
\* again over the files of the first run
C29_Witness ==
    /\ Declined
    /\ run = 2
    /\ Len(files_to_download) >= 2
    /\ \E path \in ToDownload : path \in prev.fetched

(* ---------------- further claims about list_all_files ----------------- *)

\* the entries reported without a size or with size 0
Containers == {q \in DOMAIN tree : tree[q] = None \/ tree[q] <= 0}

WalkSizes == FolderSizes \cup {10 * MiB}

\* results.items as the store reports them: an entry of alias is reported
\* under the path alias gives for it
Results(path) ==
    LET items == Listing(path) IN
    [i \in DOMAIN items |->
        IF items[i].path \in DOMAIN alias
        THEN [path |-> alias[items[i].path], size |-> items[i].size]
        ELSE items[i]]

\* a call  list_all_files(co_client, computation_id, path)  with `files = []`
Frame(path) == [path |-> path, items |-> <<>>, files |-> <<>>]

\* the running call
Top == stack[Len(stack)]

\* the interpreter refuses one more nested call
Overflows(depth) == depth >= RecursionLimit

\* faulty variant: the except clause names the errors of the request only
except_RequestError(e) == e = "RequestError"

\* `except Exception as e`: RecursionError is a subclass of Exception
except_Exception(e) == e \in {"RequestError", "RecursionError"}

WalkUnchanged ==
    UNCHANGED <<monitorVars, batchVars, lpc, ppc, max_file_size_mb,
                max_size_mb, force_download, on_disk, file_pos,
                files_to_download, skipped_files, existing_files, no_size,
                summary, downloadVars, collectVars, upgradeVars,
                sessionVars>>

WalkInit ==
    /\ wpc = "build"
    /\ alias = <<>>
    /\ stack = <<>>
    /\ exc = ""
    /\ requested = <<>>
    /\ lpc = "idle" /\ tree = <<>> /\ failing = {} /\ requests = 0
    /\ all_files = <<>>

\* the paths that have a listing of their own
Listable == {Root} \cup {q \in DOMAIN tree \ DOMAIN alias :
                                tree[q] \in FolderSizes}

\* the paths a listing of parent may report instead of an entry's own path:
\* the listed path itself or one of its ancestors
Above(parent) == {SubSeq(parent, 1, k) : k \in 0..Len(parent)}

\* the store: one more entry below a container, nested less deep than the
\* interpreter lets calls nest
PutEntry ==
    /\ wpc = "build"
    /\ Cardinality(DOMAIN tree) < MaxNodes
    /\ \E parent \in Listable, size \in WalkSizes :
         /\ Len(parent) + 1 < RecursionLimit
         /\ LET q == Append(parent, Cardinality(Children(parent)) + 1) IN
            tree' = [x \in DOMAIN tree \cup {q} |->
                        IF x = q THEN size ELSE tree[x]]
    /\ UNCHANGED <<failing, requests, all_files, walkVars>>
    /\ WalkUnchanged

\* a store that is not tree-shaped: the listing of a path reports one entry
\* under the listed path itself or under an ancestor of it
PutLink ==
    /\ wpc = "build"
    /\ alias = <<>>
    /\ \E q \in DOMAIN tree \ DOMAIN alias :
         /\ Children(q) = {}
         /\ \E target \in Above(SubSeq(q, 1, Len(q) - 1)) :
              alias' = [x \in DOMAIN alias \cup {q} |->
                           IF x = q THEN target ELSE alias[x]]
    /\ UNCHANGED <<tree, failing, requests, all_files, wpc, stack, exc,
                   requested>>
    /\ WalkUnchanged

\* the store: listing requests for one more path will fail
FailPath ==
    /\ wpc = "build"
    /\ Cardinality(failing) < MaxFailures
    /\ \E p \in Listable \ failing : failing' = failing \cup {p}
    /\ UNCHANGED <<tree, requests, all_files, walkVars>>
    /\ WalkUnchanged

\* download_job: `all_files = list_all_files(co_client, job_id)`
CallRoot ==
    /\ wpc = "build"
    /\ stack' = <<Frame(Root)>>
    /\ wpc' = "list"
    /\ UNCHANGED <<tree, failing, requests, all_files, alias, exc, requested>>
    /\ WalkUnchanged

\* `results = co_client.computations.list_computation_results(...)`
ListResults ==
    /\ wpc = "list"
    /\ requests' = requests + 1
    /\ requested' = Append(requested, Top.path)
    /\ IF Top.path \in failing
       THEN /\ exc' = "RequestError"
            /\ wpc' = "except"
            /\ UNCHANGED stack
       ELSE /\ stack' = [stack EXCEPT ![Len(stack)].items = Results(Top.path)]
            /\ wpc' = "for"
            /\ UNCHANGED exc
    /\ UNCHANGED <<tree, failing, all_files, alias>>
    /\ WalkUnchanged

\* `for item in results.items`: a container is walked by a nested call, a
\* file is appended
ForItem ==
    /\ wpc = "for"
    /\ Top.items # <<>>
    /\ LET item == Head(Top.items) IN
       IF IsDirectory(item.size)
       THEN IF Overflows(Len(stack))
            THEN /\ exc' = "RecursionError"
                 /\ wpc' = "except"
                 /\ UNCHANGED stack
            ELSE /\ stack' = Append(stack, Frame(item.path))
                 /\ wpc' = "list"
                 /\ UNCHANGED exc
       ELSE /\ stack' = [stack EXCEPT
                            ![Len(stack)].files = Append(@, item),
                            ![Len(stack)].items = Tail(@)]
            /\ UNCHANGED <<wpc, exc>>
    /\ UNCHANGED <<tree, failing, requests, all_files, alias, requested>>
    /\ WalkUnchanged

\* the loop has no items left
EndFor ==
    /\ wpc = "for"
    /\ Top.items = <<>>
    /\ wpc' = "return"
    /\ UNCHANGED <<tree, failing, requests, all_files, alias, stack, exc,
                   requested>>
    /\ WalkUnchanged

\* an exception in the try block: the except clause of the running call
\* logs it and falls through to `return files`; an exception it does not
\* name leaves the call and is raised in the caller's try block
Except ==
    /\ wpc = "except"
    /\ IF except_Exception(exc)
       THEN /\ exc' = ""
            /\ wpc' = "return"
            /\ UNCHANGED stack
       ELSE /\ stack' = SubSeq(stack, 1, Len(stack) - 1)
            /\ wpc' = IF Len(stack) = 1 THEN "raised" ELSE "except"
            /\ UNCHANGED exc
    /\ UNCHANGED <<tree, failing, requests, all_files, alias, requested>>
    /\ WalkUnchanged

\* `return files`: the caller extends its own list and goes on with its
\* next item; the first call hands the list to download_job
Return ==
    /\ wpc = "return"
    /\ IF Len(stack) = 1
       THEN /\ all_files' = Top.files
            /\ stack' = <<>>
            /\ wpc' = "returned"
       ELSE /\ stack' = [SubSeq(stack, 1, Len(stack) - 1) EXCEPT
                            ![Len(stack) - 1].files = @ \o Top.files,
                            ![Len(stack) - 1].items = Tail(@)]
            /\ wpc' = "for"
            /\ UNCHANGED all_files
    /\ UNCHANGED <<tree, failing, requests, alias, exc, requested>>
    /\ WalkUnchanged

\* the steps of the running walk
WalkStep == ListResults \/ ForItem \/ EndFor \/ Except \/ Return

WalkNext == PutEntry \/ PutLink \/ FailPath \/ CallRoot \/ WalkStep

InitWalk ==
    WalkInit /\ MonitorIdle /\ BatchIdle /\ ListOthersIdle /\ DownloadIdle
        /\ CollectIdle /\ UpgradeIdle /\ SessionsIdle

SpecWalk == InitWalk /\ [][WalkNext]_vars

\* the interpreter runs a started walk on
FairSpecWalk == SpecWalk /\ WF_vars(CallRoot) /\ WF_vars(WalkStep)

(* ------------- claims about list_all_files call by call ---------------- *)

\* the paths of the listing requests made
Requested == {requested[i] : i \in DOMAIN requested}

\* the containers the walk comes to: not below a path whose listing fails
Reached == {q \in Listable : ~UnderFailure(q)}

\* the listing of a path was received and reports a container under the
\* listed path itself or under an ancestor of it
LinkReached ==
    \E q \in DOMAIN alias :
        /\ tree[q] \in FolderSizes
        /\ SubSeq(q, 1, Len(q) - 1) \in Requested \ failing

\* C31 (as stated): on a tree-shaped namespace the walk makes exactly one
\* listing request per container reached plus one for the root, and on a
\* namespace where a listing returns the listed path itself or an ancestor
\* the walk does not terminate.
C31_NoReturnFromCycle ==
    /\ (wpc = "returned" /\ alias = <<>>) =>
          /\ Requested = Reached
          /\ Len(requested) = Cardinality(Reached)
    /\ LinkReached => wpc # "returned"

\* what holds of every state of a walk
WalkInvariant ==
    /\ Len(stack) <= RecursionLimit
    /\ wpc # "raised"
    /\ requests = Len(requested)
    /\ alias = <<>> => exc # "RecursionError"
    /\ (wpc = "returned" /\ alias = <<>>) =>
          /\ Requested = Reached
          /\ Len(requested) = Cardinality(Reached)
          /\ all_files = list_all_files(Root).files
    /\ (wpc = "returned" /\ LinkReached) =>
          \E i, j \in DOMAIN requested :
              /\ i < j
              /\ requested[i] = requested[j]
              /\ \E q \in DOMAIN alias : requested[i] = alias[q]

\* C31 (amended): list_all_files terminates on every finite tree-shaped
\* namespace nested less deep than the interpreter's recursion limit, also
\* when listings fail and when zero-size entries are recursed into, with
\* exactly one listing request per container reached plus one for the
\* root; it has no visited-path guard, so where a listing returns the
\* listed path itself or an ancestor as a container that path is listed
\* again and again until the interpreter refuses a further nested call:
\* the RecursionError is caught by the function's own except clause, and
\* the walk still ends and returns a list without raising.
C31_WalkEndsAtRecursionLimit ==
    /\ []WalkInvariant
    /\ <>(wpc = "returned")

\* a tree-shaped namespace was walked in which a listing failed and a
\* container of size 0 with an entry below it was listed
C31_Witness ==
    /\ wpc = "returned"
    /\ alias = <<>>
    /\ failing # {}
    /\ \E q \in (Requested \ failing) \ {Root} :
          tree[q] = 0 /\ Children(q) # {}

(* ---------------- further claims about the collector ------------------ *)

\* the assets shown as Downloading
ShownDownloading == {i \in DOMAIN statuses : statuses[i] = "Downloading"}

\* the changes of a recorded status: Not started -> Downloading -> Done
\* or Error
StatusMoves ==
    {<<"Not started", "Downloading">>, <<"Downloading", "Done">>,
     <<"Downloading", "Error">>}

\* C32: an asset's recorded status moves only Not started -> Downloading ->
\* Done or Error, an asset is recorded as Downloading only while a worker
\* is transferring it, and so at most MAX_CONCURRENT_DOWNLOADS assets are
\* recorded as Downloading at any point.
C32_DownloadingOnlyWhileTransferring ==
    /\ [][\A i \in DOMAIN statuses :
             (i \in DOMAIN statuses' /\ statuses'[i] # statuses[i])
                 => <<statuses[i], statuses'[i]>> \in StatusMoves]_vars
    /\ [](ShownDownloading \subseteq Running)
    /\ [](Cardinality(ShownDownloading) <= MAX_CONCURRENT_DOWNLOADS)

(* ============ upgrade-aind-behavior-services-json/main.py ============== *)

\* paths are given from CONFIGURATION_DIRECTORY on
CONFIGURATION_DIRECTORY == <<>>

RIG_DIRECTORY == CONFIGURATION_DIRECTORY \o <<"Rig">>

BACKUP_DIRECTORY == CONFIGURATION_DIRECTORY \o <<"Backups", "Rig">>

\* what a rig file holds: a configuration the model accepts, JSON the model
\* rejects, text that is not JSON; "upgraded" is what model_dump_json
\* gives, "stale" a backup left by an earlier run
Contents == {"valid", "invalid", "garbage"}

\* AindVrForagingRig.model_validate_json(text) returns a rig
Validates(text) == text \in {"valid", "upgraded"}

\* json.loads(text) returns
Loads(text) == text # "garbage"

\* rig.model_dump_json() of the rig read from text
model_dump_json(text) == "upgraded"

\* `file.relative_to(CONFIGURATION_DIRECTORY)`
relative_to(path, base) == SubSeq(path, Len(base) + 1, Len(path))

\* `BACKUP_DIRECTORY.parent`
parent(path) == SubSeq(path, 1, Len(path) - 1)

\* backup_file: `backup_path = BACKUP_DIRECTORY.parent / relative_path`
backup_path(path) ==
    parent(BACKUP_DIRECTORY) \o relative_to(path, CONFIGURATION_DIRECTORY)

\* faulty variant: the rewrite does not look at DRY_RUN
RewritesAlways(dry_run) == TRUE

\* `if not DRY_RUN`
Rewrites(dry_run) == ~dry_run

\* `if DELETE_UNPARSABLE and not DRY_RUN`
Deletes(delete_unparsable, dry_run) == delete_unparsable /\ ~dry_run

RECURSIVE FilesIn(_, _)

\* the number of json files in the first n rig directories
FilesIn(layout, n) == IF n = 0 THEN 0 ELSE layout[n] + FilesIn(layout, n - 1)

\* how many json files each rig directory holds
RigLayouts ==
    {layout \in [1..MaxRigs -> 0..MaxRigFiles] :
        FilesIn(layout, MaxRigs) <= MaxRigFiles}

\* the json files of a layout
RigFiles(layout) ==
    UNION {{RIG_DIRECTORY \o <<pc, name>> : name \in 1..layout[pc]} :
              pc \in 1..MaxRigs}

\* `pc.glob("*.json")`: the json files of rig directory pc, in name order
glob(pc) ==
    LET n == Cardinality({path \in DOMAIN rig_disk :
                             Len(path) = 3 /\ SubSeq(path, 1, 1) = RIG_DIRECTORY
                                 /\ path[2] = pc})
    IN  [name \in 1..n |-> RIG_DIRECTORY \o <<pc, name>>]

\* the files after `shutil.copy2(source, target)`
copy2(fs, source, target) ==
    [path \in DOMAIN fs \cup {target} |->
        IF path = target THEN fs[source] ELSE fs[path]]

\* the files after `file.write_text(text)`
write_text(fs, path, text) == [fs EXCEPT ![path] = text]

\* the files after `file.unlink()`
unlink(fs, path) == [q \in DOMAIN fs \ {path} |-> fs[q]]

UpgradeUnchanged ==
    UNCHANGED <<monitorVars, batchVars, listVars, filterVars, downloadVars,
                collectVars, walkVars, sessionVars>>

\* the script starts: the flags as edited, the rig files as they are, with
\* or without the backups of an earlier run
UpgradeInit ==
    /\ upc = "rigs"
    /\ DRY_RUN \in BOOLEAN
    /\ DELETE_UNPARSABLE \in BOOLEAN
    /\ \E layout \in RigLayouts, earlier \in BOOLEAN :
         \E text \in [RigFiles(layout) -> Contents] :
            rig_disk =
                [path \in RigFiles(layout) \cup
                          (IF earlier
                           THEN {backup_path(q) : q \in RigFiles(layout)}
                           ELSE {}) |->
                    IF path \in RigFiles(layout) THEN text[path] ELSE "stale"]
    /\ original = rig_disk
    /\ pc_pos = 1
    /\ json_files = <<>>
    /\ file = <<>>
    /\ ops = <<>>

\* `for pc in available_rigs: json_files = pc.glob("*.json")`
NextRig ==
    /\ upc = "rigs"
    /\ pc_pos <= MaxRigs
    /\ json_files' = glob(pc_pos)
    /\ upc' = "files"
    /\ UNCHANGED <<DRY_RUN, DELETE_UNPARSABLE, rig_disk, original, pc_pos,
                   file, ops>>
    /\ UpgradeUnchanged

\* the outer loop is over
EndRigs ==
    /\ upc = "rigs"
    /\ pc_pos > MaxRigs
    /\ upc' = "done"
    /\ UNCHANGED <<DRY_RUN, DELETE_UNPARSABLE, rig_disk, original, pc_pos,
                   json_files, file, ops>>
    /\ UpgradeUnchanged

\* `for file in json_files`
NextFile ==
    /\ upc = "files"
    /\ IF json_files = <<>>
       THEN /\ pc_pos' = pc_pos + 1
            /\ upc' = "rigs"
            /\ UNCHANGED <<json_files, file>>
       ELSE /\ file' = Head(json_files)
            /\ json_files' = Tail(json_files)
            /\ upc' = "try"
            /\ UNCHANGED pc_pos
    /\ UNCHANGED <<DRY_RUN, DELETE_UNPARSABLE, rig_disk, original, ops>>
    /\ UpgradeUnchanged

\* `rig = AindVrForagingRig.model_validate_json(file.read_text(...))`, then
\* `if not DRY_RUN`; a ValidationError leads to the except branch
Validate ==
    /\ upc = "try"
    /\ upc' = IF Validates(rig_disk[file])
              THEN IF Rewrites(DRY_RUN) THEN "backup_rewrite" ELSE "files"
              ELSE "except"
    /\ UNCHANGED <<DRY_RUN, DELETE_UNPARSABLE, rig_disk, original, pc_pos,
                   json_files, file, ops>>
    /\ UpgradeUnchanged

\* backup_file(file): the copy is made, or it raises and the script ends
BackupFile ==
    /\ upc \in {"backup_rewrite", "backup_delete"}
    /\ \E copied \in BOOLEAN :
         IF copied
         THEN /\ rig_disk' = copy2(rig_disk, file, backup_path(file))
              /\ ops' = Append(ops, [op |-> "backup", file |-> file,
                                     text |-> rig_disk[file]])
              /\ upc' = IF upc = "backup_rewrite" THEN "write" ELSE "unlink"
         ELSE /\ upc' = "raised"
              /\ UNCHANGED <<rig_disk, ops>>
    /\ UNCHANGED <<DRY_RUN, DELETE_UNPARSABLE, original, pc_pos, json_files,
                   file>>
    /\ UpgradeUnchanged

\* `file.write_text(rig.model_dump_json(), encoding="utf-8")`
WriteFile ==
    /\ upc = "write"
    /\ rig_disk' = write_text(rig_disk, file, model_dump_json(rig_disk[file]))
    /\ ops' = Append(ops, [op |-> "write", file |-> file,
                           text |-> model_dump_json(rig_disk[file])])
    /\ upc' = "files"
    /\ UNCHANGED <<DRY_RUN, DELETE_UNPARSABLE, original, pc_pos, json_files,
                   file>>
    /\ UpgradeUnchanged

\* `except pydantic.ValidationError`: json.loads of the text for the
\* message (a JSONDecodeError ends the script), then
\* `if DELETE_UNPARSABLE and not DRY_RUN`
ReportInvalid ==
    /\ upc = "except"
    /\ upc' = IF ~Loads(rig_disk[file]) THEN "raised"
              ELSE IF Deletes(DELETE_UNPARSABLE, DRY_RUN) THEN "backup_delete"
              ELSE "files"
    /\ UNCHANGED <<DRY_RUN, DELETE_UNPARSABLE, rig_disk, original, pc_pos,
                   json_files, file, ops>>
    /\ UpgradeUnchanged

\* `file.unlink()`
UnlinkFile ==
    /\ upc = "unlink"
    /\ rig_disk' = unlink(rig_disk, file)
    /\ ops' = Append(ops, [op |-> "unlink", file |-> file, text |-> ""])
    /\ upc' = "files"
    /\ UNCHANGED <<DRY_RUN, DELETE_UNPARSABLE, original, pc_pos, json_files,
                   file>>
    /\ UpgradeUnchanged

UpgradeNext ==
    \/ NextRig
    \/ EndRigs
    \/ NextFile
    \/ Validate
    \/ BackupFile
    \/ WriteFile
    \/ ReportInvalid
    \/ UnlinkFile

InitUpgrade ==
    UpgradeInit /\ MonitorIdle /\ BatchIdle /\ ListIdle /\ FilterIdle
        /\ DownloadIdle /\ CollectIdle /\ WalkIdle /\ SessionsIdle

SpecUpgrade == InitUpgrade /\ [][UpgradeNext]_vars

(* ------------------ claims about the upgrade script -------------------- *)

\* the rig files the script found when it started
RigFilesBefore ==
    {path \in DOMAIN original : SubSeq(path, 1, 1) = RIG_DIRECTORY}

\* the rewrites and deletions among the operations made
Changes == {k \in DOMAIN ops : ops[k].op \in {"write", "unlink"}}

\* C33: with DRY_RUN true no rig file is rewritten, backed up or deleted;
\* with DRY_RUN false every rewrite or deletion of a file comes right after
\* a backup copy of the file's content as it was when the run started, the
\* backup holds that content from then on, a file is rewritten only if it
\* validated, and a file is deleted only if it failed validation and
\* DELETE_UNPARSABLE is true.
C33_BackupBeforeChange ==
    /\ DRY_RUN => ops = <<>> /\ rig_disk = original
    /\ \A k \in Changes :
          /\ k > 1
          /\ ops[k - 1].op = "backup"
          /\ ops[k - 1].file = ops[k].file
          /\ ops[k - 1].text = original[ops[k].file]
          /\ ops[k].op = "write" => Validates(original[ops[k].file])
          /\ ops[k].op = "unlink" =>
                ~Validates(original[ops[k].file]) /\ DELETE_UNPARSABLE
    /\ \A path \in RigFilesBefore :
          (path \notin DOMAIN rig_disk \/ rig_disk[path] # original[path]) =>
              /\ backup_path(path) \in DOMAIN rig_disk
              /\ rig_disk[backup_path(path)] = original[path]
    /\ \A path \in DOMAIN rig_disk \ RigFilesBefore :
          \/ path \in DOMAIN original /\ rig_disk[path] = original[path]
          \/ \E q \in RigFilesBefore :
                path = backup_path(q) /\ rig_disk[path] = original[q]

\* a run with both flags set for changes ended: a file was rewritten and
\* another deleted, each over the backup an earlier run had left
C33_Witness ==
    /\ upc = "done"
    /\ ~DRY_RUN /\ DELETE_UNPARSABLE
    /\ \E k \in Changes : ops[k].op = "write"
    /\ \E k \in Changes :
          /\ ops[k].op = "unlink"
          /\ ops[k].file \notin DOMAIN rig_disk
          /\ backup_path(ops[k].file) \in DOMAIN original
          /\ original[backup_path(ops[k].file)] = "stale"

(* ========== vr-foraging-data-transfer-post-acquisition/main.py ========= *)

\* what is wrong with an entry of target_folder: nothing, it is not a
\* directory, its name is not <subject>_<date>, its task logic has another
\* version than the repository, its metadata cannot be produced or read,
\* the transfer service rejects its submit request
Faults ==
    {"none", "not_dir", "invalid_name", "version_mismatch", "metadata_error",
     "rejected"}

\* an entry: its fault and whether acquisition.json and instrument.json
\* are there already
Entries == [fault : Faults, has_metadata : BOOLEAN]

session_dir == sessions[session_pos]

\* the condition of the if at `acquisition.json ... exists()`
MetadataKept(entry, force) == entry.has_metadata /\ ~force

SessionsUnchanged ==
    UNCHANGED <<monitorVars, batchVars, listVars, filterVars, downloadVars,
                collectVars, walkVars, upgradeVars>>

\* main starts: the flag as edited, target_folder as it is
SessionsInit ==
    /\ tpc = "for"
    /\ FORCE_METADATA_REGEN \in BOOLEAN
    /\ \E n \in 0..MaxSessions : sessions \in [1..n -> Entries]
    /\ session_pos = 1
    /\ visited = {}
    /\ posted = <<>>

\* `for session_dir in Path(target_folder).iterdir()` with
\* `if not session_dir.is_dir(): continue`
NextSession ==
    /\ tpc = "for"
    /\ session_pos <= Len(sessions)
    /\ visited' = visited \cup {session_pos}
    /\ IF session_dir.fault = "not_dir"
       THEN /\ session_pos' = session_pos + 1
            /\ UNCHANGED tpc
       ELSE /\ tpc' = "from_path"
            /\ UNCHANGED session_pos
    /\ UNCHANGED <<FORCE_METADATA_REGEN, sessions, posted>>
    /\ SessionsUnchanged

\* the loop is over and main returns
EndSessions ==
    /\ tpc = "for"
    /\ session_pos > Len(sessions)
    /\ tpc' = "done"
    /\ UNCHANGED <<FORCE_METADATA_REGEN, sessions, session_pos, visited,
                   posted>>
    /\ SessionsUnchanged

\* `session_info = SessionInfo.from_path(session_dir)`; a ValueError is
\* caught and the loop continues; then the if on the metadata files
FromPath ==
    /\ tpc = "from_path"
    /\ IF session_dir.fault = "invalid_name"
       THEN /\ session_pos' = session_pos + 1
            /\ tpc' = "for"
       ELSE /\ tpc' = IF MetadataKept(session_dir, FORCE_METADATA_REGEN)
                      THEN "request" ELSE "version"
            /\ UNCHANGED session_pos
    /\ UNCHANGED <<FORCE_METADATA_REGEN, sessions, visited, posted>>
    /\ SessionsUnchanged

\* `if version != repo_version: raise ValueError(...)`, outside any try
CheckVersion ==
    /\ tpc = "version"
    /\ tpc' = IF session_dir.fault = "version_mismatch"
              THEN "raised" ELSE "mapper"
    /\ UNCHANGED <<FORCE_METADATA_REGEN, sessions, session_pos, visited,
                   posted>>
    /\ SessionsUnchanged

\* `DataMapperCli(...).cli_cmd()`, outside any try
MapData ==
    /\ tpc = "mapper"
    /\ tpc' = IF session_dir.fault = "metadata_error"
              THEN "raised" ELSE "request"
    /\ UNCHANGED <<FORCE_METADATA_REGEN, sessions, session_pos, visited,
                   posted>>
    /\ SessionsUnchanged

\* acquisition.json is read and the submit request is built, outside any
\* try
BuildRequest ==
    /\ tpc = "request"
    /\ tpc' = IF session_dir.fault = "metadata_error"
              THEN "raised" ELSE "post"
    /\ UNCHANGED <<FORCE_METADATA_REGEN, sessions, session_pos, visited,
                   posted>>
    /\ SessionsUnchanged

\* `requests.post(...)` and `submit_job_response.raise_for_status()`,
\* outside any try
PostRequest ==
    /\ tpc = "post"
    /\ posted' = Append(posted, session_pos)
    /\ IF session_dir.fault = "rejected"
       THEN /\ tpc' = "raised"
            /\ UNCHANGED session_pos
       ELSE /\ session_pos' = session_pos + 1
            /\ tpc' = "for"
    /\ UNCHANGED <<FORCE_METADATA_REGEN, sessions, visited>>
    /\ SessionsUnchanged

SessionsNext ==
    \/ NextSession
    \/ EndSessions
    \/ FromPath
    \/ CheckVersion
    \/ MapData
    \/ BuildRequest
    \/ PostRequest

InitSessions ==
    SessionsInit /\ MonitorIdle /\ BatchIdle /\ ListIdle /\ FilterIdle
        /\ DownloadIdle /\ CollectIdle /\ WalkIdle /\ UpgradeIdle

SpecSessions == InitSessions /\ [][SessionsNext]_vars

(* ------------------ claims about the transfer script ------------------- *)

\* a session directory with a well-formed name that nothing is wrong with
ValidSession(i) == sessions[i].fault = "none"

\* the submit requests sent for entry i
Posts(i) == Cardinality({k \in DOMAIN posted : posted[k] = i})

\* C34: errors local to one session directory do not reach its siblings:
\* when the script has ended, every entry of target_folder was come to and
\* exactly one transfer job was submitted for each valid session, whatever
\* failed for the others (invalid directory name, version mismatch,
\* metadata generation error, rejected submit request).
C34_SessionIsolation ==
    tpc \in {"done", "raised"} =>
        /\ visited = DOMAIN sessions
        /\ \A i \in DOMAIN sessions : ValidSession(i) => Posts(i) = 1

====
